---- MODULE Spec2Model ----
(***************************************************************************)
(* Model of the result cache of the Vision Insights plugin (CacheManager), *)
(* its persistence through the plugin's data blob (loadData / saveData),   *)
(* the settings that steer it, and the request flow of the plugin          *)
(* (executeVisionAction, enforceRateLimit).                                *)
(*                                                                         *)
(* Cache keys stand for the strings generateCacheKey returns; the cache    *)
(* is a JavaScript Map, modelled as a sequence of entries in insertion     *)
(* order (Map.set on a present key keeps its position, Map.delete removes  *)
(* it).  The clock counts milliseconds, as Date.now() does, and advances   *)
(* in steps of TickMs; it never goes backwards.                            *)
(***************************************************************************)
EXTENDS Integers, Sequences, FiniteSets, Bags, TLC

(* ------------------------- program constants -------------------------- *)

\* maxCacheAge * 60 * 60 * 1000: hours to milliseconds
MsPerHour == 3600000
\* DEFAULT_SETTINGS.maxCacheAge
DefaultMaxCacheAge == 24
\* the shortest duration the settings slider offers
MinMaxCacheAge == 1
\* settings.maxCacheEntries is optional: the value of a field never set
Undefined == 0 - 1

Keys == {"a", "b", "c"}
TwoKeys == {"a", "b"}
OneKey == {"a"}
Results == {"r1", "r2"}
\* getCachedResult's null
Null == "null"
NoKey == "-"

MaxCacheAges == {MinMaxCacheAge, DefaultMaxCacheAge}
\* the values typed into the 'Max Cache Entries' field
TypedMaxCacheEntries == {1, 2}

(* ------------------------------ bounds -------------------------------- *)

\* the clock stops after MaxTicks steps of TickMs milliseconds
MaxTicks == 3
TickMs == MsPerHour
\* at most MaxPending saveCache and saveSettings calls await the blob store at once
MaxPending == 1
\* the longest run of puts on an empty store that is recorded
MaxLog == 4

(* ------------------------- the Map operations ------------------------- *)

KeysOf(c) == {c[i].key : i \in 1..Len(c)}

Has(c, k) == k \in KeysOf(c)

\* Map.get, for a present key
EntryOf(c, k) == c[CHOOSE i \in 1..Len(c) : c[i].key = k]

\* faulty variant: a present key keeps its old entry
MapSetKeeps(c, k, e) == IF k \in {c[i].key : i \in 1..Len(c)} THEN c ELSE Append(c, e)

\* Map.set: a present key keeps its place, a new key is appended
MapSet(c, k, e) ==
    IF Has(c, k)
    THEN [i \in 1..Len(c) |-> IF c[i].key = k THEN e ELSE c[i]]
    ELSE Append(c, e)

\* Map.delete
MapDelete(c, k) == SelectSeq(c, LAMBDA e : e.key # k)

\* accessOrder.filter(k => k !== key)
Without(ord, k) == SelectSeq(ord, LAMBDA x : x # k)

(* --------------------------- CacheManager ----------------------------- *)

MaxAgeMs(s) == s.maxCacheAge * MsPerHour

\* faulty variant: an entry expires as soon as its age reaches maxAge
ExpiredAtAge(e, s, t) == t - e.timestamp >= MaxAgeMs(s)

\* Date.now() - entry.timestamp > maxAge
Expired(e, s, t) == t - e.timestamp > MaxAgeMs(s)

\* faulty variants: a present key keeps its place; the key goes to the front
TouchKeyStay(ord, k) == IF \E i \in 1..Len(ord) : ord[i] = k THEN ord ELSE Append(ord, k)
TouchKeyFront(ord, k) == <<k>> \o Without(ord, k)

TouchKey(ord, k) == Append(Without(ord, k), k)

\* faulty variant: an if in place of the while
EnforceOnce(c, ord, max) ==
    IF Len(c) > max /\ ord # <<>>
    THEN [cache |-> MapDelete(c, Head(ord)), accessOrder |-> Tail(ord)]
    ELSE [cache |-> c, accessOrder |-> ord]

RECURSIVE EnforceLoop(_, _, _)
EnforceLoop(c, ord, max) ==
    IF Len(c) > max
    THEN IF ord = <<>>
         THEN [cache |-> c, accessOrder |-> ord]
         ELSE EnforceLoop(MapDelete(c, Head(ord)), Tail(ord), max)
    ELSE [cache |-> c, accessOrder |-> ord]

EnforceLimits(c, ord, max) ==
    IF max = Undefined \/ max <= 0
    THEN [cache |-> c, accessOrder |-> ord]
    ELSE EnforceLoop(c, ord, max)

\* the synchronous part of cacheResult with caching enabled
CacheResultEffect(c, ord, s, k, r, t) ==
    EnforceLimits(MapSet(c, k, [key |-> k, result |-> r, timestamp |-> t]),
                  TouchKey(ord, k), s.maxCacheEntries)

\* faulty variant: the cacheResults setting is not consulted
GetIgnoresSetting(c, s, k, t) ==
    IF ~Has(c, k) THEN Null
    ELSE IF Expired(EntryOf(c, k), s, t) THEN Null
    ELSE EntryOf(c, k).result

\* what getCachedResult returns
GetCachedResultValue(c, s, k, t) ==
    IF ~s.cacheResults THEN Null
    ELSE IF ~Has(c, k) THEN Null
    ELSE IF Expired(EntryOf(c, k), s, t) THEN Null
    ELSE EntryOf(c, k).result

\* whether getCachedResult deletes the entry (and starts a save)
GetExpires(c, s, k, t) ==
    s.cacheResults /\ Has(c, k) /\ Expired(EntryOf(c, k), s, t)

\* faulty variant: the total leaves out the expired entries
StatsValidOnly(c, s, t) ==
    [validEntries |-> Cardinality({i \in 1..Len(c) : ~Expired(c[i], s, t)}),
     expiredEntries |-> Cardinality({i \in 1..Len(c) : Expired(c[i], s, t)}),
     totalEntries |-> Cardinality({i \in 1..Len(c) : ~Expired(c[i], s, t)})]

\* getCacheStats
GetCacheStatsValue(c, s, t) ==
    [validEntries |-> Cardinality({i \in 1..Len(c) : ~Expired(c[i], s, t)}),
     expiredEntries |-> Cardinality({i \in 1..Len(c) : Expired(c[i], s, t)}),
     totalEntries |-> Len(c)]

\* faulty variant: the entries stay in the order the map holds them
SortKeepsOrder(c) == c

\* loadCache: keys sorted by ascending timestamp (Array.prototype.sort is stable)
RECURSIVE InsertSorted(_, _)
InsertSorted(sorted, e) ==
    IF sorted = <<>> THEN <<e>>
    ELSE IF sorted[Len(sorted)].timestamp <= e.timestamp THEN Append(sorted, e)
    ELSE Append(InsertSorted(SubSeq(sorted, 1, Len(sorted) - 1), e), sorted[Len(sorted)])

RECURSIVE SortByTimestamp(_)
SortByTimestamp(c) ==
    IF c = <<>> THEN <<>>
    ELSE InsertSorted(SortByTimestamp(SubSeq(c, 1, Len(c) - 1)), c[Len(c)])

RebuildAccessOrder(c) ==
    LET s == SortByTimestamp(c) IN [i \in 1..Len(s) |-> s[i].key]

(* ------------------------------ state --------------------------------- *)

VARIABLES
    now,          \* Date.now()
    settings,     \* plugin.settings, with the cache field loadSettings copied into it
    cache,        \* CacheManager.cache
    accessOrder,  \* CacheManager.accessOrder
    blob,         \* the plugin's persisted data (data.json), read by loadData
    loaded,       \* whether the constructor's loadCache call has finished
    saves,        \* the saveCache and saveSettings calls awaiting the blob store
    last,         \* history: the operation called last, what it returned, how many
                  \* entries it removed, and whether a persistence step failed since
    puts,         \* history: the keys put, in order, since the map was last empty,
                  \* as long as nothing but puts was called
    lastRequestTime,  \* VisionInsightsPlugin.lastRequestTime
    requests,     \* the calls of executeVisionAction and analyzeAllImagesInNote
    keyCall,      \* the latest call of generateCacheKey: its arguments and its key
    prevKeyCall,  \* the call of generateCacheKey before that one
    hashCall,     \* the latest call of hashString: its argument and its result
    sectionCall,  \* the latest call of extractSectionData
    rerunBy,      \* for each request, the results modal whose Re-run button made it
    linksCall,    \* the latest call of extractRelatedWikiLinks
    contextCall,  \* the latest call of extractNoteContext
    prompt,       \* the PromptModal last opened and the handler that opened it
    insertCall    \* the latest click on an insert button of the results modal

storeVars == <<now, settings, cache, accessOrder, blob, loaded, saves, last, puts>>
pluginVars == <<lastRequestTime, requests, rerunBy>>
callVars == <<keyCall, prevKeyCall, hashCall, sectionCall, linksCall, contextCall, insertCall>>
pureVars == <<keyCall, prevKeyCall, hashCall, sectionCall, linksCall, contextCall, prompt,
              insertCall>>
vars == <<now, settings, cache, accessOrder, blob, loaded, saves, last, puts,
          lastRequestTime, requests, rerunBy, keyCall, prevKeyCall, hashCall,
          sectionCall, linksCall, contextCall, prompt, insertCall>>

\* DEFAULT_SETTINGS: maxCacheEntries is not among them
DefaultSettings ==
    [cacheResults |-> TRUE, maxCacheAge |-> DefaultMaxCacheAge,
     maxCacheEntries |-> Undefined]

\* a missing data.json: loadData() returns null, which both readers treat as {}
EmptyBlob == [hasSettings |-> FALSE, s |-> DefaultSettings, hasCache |-> FALSE, cache |-> <<>>]

Entry(k, r, t) == [key |-> k, result |-> r, timestamp |-> t]

\* what an earlier session may have left in the blob
InitBlobs ==
    {EmptyBlob,
     [hasSettings |-> TRUE,
      s |-> [cacheResults |-> TRUE, maxCacheAge |-> MinMaxCacheAge, maxCacheEntries |-> 2],
      hasCache |-> TRUE,
      cache |-> <<Entry("b", "r2", TickMs), Entry("a", "r1", 0)>>]}

\* loadSettings: Object.assign({}, DEFAULT_SETTINGS, await this.loadData())
LoadSettings(b) ==
    [cacheResults |-> b.s.cacheResults, maxCacheAge |-> b.s.maxCacheAge,
     maxCacheEntries |-> b.s.maxCacheEntries,
     hasCache |-> b.hasCache, cache |-> b.cache]

\* the object saveSettings hands to saveData: this.settings, whole
SettingsBlob(s) ==
    [hasSettings |-> TRUE,
     s |-> [cacheResults |-> s.cacheResults, maxCacheAge |-> s.maxCacheAge,
            maxCacheEntries |-> s.maxCacheEntries],
     hasCache |-> s.hasCache, cache |-> s.cache]

Step(op, k) == [op |-> op, key |-> k, value |-> Null, removed |-> 0, failed |-> FALSE]

EmptyLog == [on |-> TRUE, keys |-> <<>>]
Off == [on |-> FALSE, keys |-> <<>>]
\* the log after an operation that is no put: it starts again on an empty map
Logged(c) == IF c = <<>> THEN EmptyLog ELSE Off
\* the log after an effective put
LoggedPut(log, k) ==
    IF log.on /\ Len(log.keys) < MaxLog THEN [log EXCEPT !.keys = Append(@, k)] ELSE Off

Pending == BagCardinality(saves)

Start(p) == saves (+) SetToBag({p})
Finish(p) == saves (-) SetToBag({p})

(* ------------------------- the store's operations --------------------- *)

\* saveCache up to its await of loadData
SaveCacheCall == Start([phase |-> "load", data |-> EmptyBlob])

\* faulty variant: a read moves the key to the end of the recency order
GetTouchesKey(ord, k) == TouchKey(ord, k)

\* what getCachedResult does to accessOrder: it has no call of touchKey
GetLeavesOrder(ord, k) == ord

GetCachedResult(k) ==
    /\ last' = [Step("get", k) EXCEPT
                  !.value = GetCachedResultValue(cache, settings, k, now),
                  !.removed = IF GetExpires(cache, settings, k, now) THEN 1 ELSE 0]
    /\ IF GetExpires(cache, settings, k, now)
       THEN /\ cache' = MapDelete(cache, k)
            /\ saves' = SaveCacheCall
       ELSE UNCHANGED <<cache, saves>>
    /\ accessOrder' = GetLeavesOrder(accessOrder, k)
    /\ puts' = Logged(cache')
    /\ UNCHANGED <<now, settings, blob, loaded>>

CacheResult(k, r) ==
    /\ IF settings.cacheResults
       THEN /\ LET after == CacheResultEffect(cache, accessOrder, settings, k, r, now)
               IN /\ cache' = after.cache
                  /\ accessOrder' = after.accessOrder
                  /\ last' = [Step("put", k) EXCEPT
                                !.removed = Len(MapSet(cache, k, Entry(k, r, now)))
                                            - Len(after.cache)]
            /\ saves' = SaveCacheCall
            /\ puts' = LoggedPut(puts, k)
       ELSE /\ last' = Step("put", k)
            /\ puts' = Logged(cache)
            /\ UNCHANGED <<cache, accessOrder, saves>>
    /\ UNCHANGED <<now, settings, blob, loaded>>

\* faulty variant: the save is started for an absent key too
InvalidateAlwaysSaves(c, ord, k) ==
    [cache |-> MapDelete(c, k), accessOrder |-> Without(ord, k), saved |-> TRUE]

InvalidateEffect(c, ord, k) ==
    IF Has(c, k)
    THEN [cache |-> MapDelete(c, k), accessOrder |-> Without(ord, k), saved |-> TRUE]
    ELSE [cache |-> c, accessOrder |-> ord, saved |-> FALSE]

Invalidate(k) ==
    /\ LET after == InvalidateEffect(cache, accessOrder, k)
       IN /\ last' = [Step("invalidate", k) EXCEPT !.removed = Len(cache) - Len(after.cache)]
          /\ cache' = after.cache
          /\ accessOrder' = after.accessOrder
          /\ saves' = IF after.saved THEN SaveCacheCall ELSE saves
    /\ puts' = Logged(cache')
    /\ UNCHANGED <<now, settings, blob, loaded>>

\* faulty variant: the newest entry survives
ClearLeavesLast(c, ord) ==
    [cache |-> IF c = <<>> THEN c ELSE <<c[Len(c)]>>, accessOrder |-> ord]

ClearCacheEffect(c, ord) == [cache |-> <<>>, accessOrder |-> ord]

ClearCache ==
    /\ LET after == ClearCacheEffect(cache, accessOrder)
       IN /\ last' = [Step("clear", NoKey) EXCEPT !.removed = Len(cache) - Len(after.cache)]
          /\ cache' = after.cache
          /\ accessOrder' = after.accessOrder
    /\ saves' = SaveCacheCall
    /\ puts' = Logged(cache')
    /\ UNCHANGED <<now, settings, blob, loaded>>

\* getCacheStats: the settings tab shows GetCacheStatsValue
GetCacheStats ==
    /\ last' = Step("stats", NoKey)
    /\ puts' = Logged(cache)
    /\ UNCHANGED <<now, settings, cache, accessOrder, blob, loaded, saves>>

(* ------------------------------ loadCache ----------------------------- *)

LoadCacheEffect(c, ord, data) ==
    IF data.hasCache
    THEN [cache |-> data.cache, accessOrder |-> RebuildAccessOrder(data.cache)]
    ELSE [cache |-> c, accessOrder |-> ord]

\* await this.plugin.loadData() resolves and the rest of loadCache runs
LoadCache ==
    /\ ~loaded
    /\ LET after == LoadCacheEffect(cache, accessOrder, blob)
       IN /\ cache' = after.cache
          /\ accessOrder' = after.accessOrder
    /\ loaded' = TRUE
    /\ last' = Step("load", NoKey)
    /\ puts' = Logged(cache')
    /\ UNCHANGED <<now, settings, blob, saves>>

\* loadData throws: caught and logged
LoadCacheThrows ==
    /\ ~loaded
    /\ loaded' = TRUE
    /\ last' = [Step("load", NoKey) EXCEPT !.failed = TRUE]
    /\ puts' = Logged(cache)
    /\ UNCHANGED <<now, settings, cache, accessOrder, blob, saves>>

(* ------------------------------ saveCache ----------------------------- *)

\* data.cache = Object.fromEntries(this.cache)
SaveCacheData(data, c) == [data EXCEPT !.hasCache = TRUE, !.cache = c]

\* await this.plugin.loadData() || {} resolves; the map is copied into the data
\* and handed to saveData
SaveCacheWrite ==
    \E p \in BagToSet(saves) :
        /\ p.phase = "load"
        /\ saves' = Finish(p) (+) SetToBag({[phase |-> "write", data |-> SaveCacheData(blob, cache)]})
        /\ UNCHANGED <<now, settings, cache, accessOrder, blob, loaded, last, puts>>

\* a saveData call completes: the blob holds what was handed to it
SaveDataDone ==
    \E p \in BagToSet(saves) :
        /\ p.phase = "write"
        /\ blob' = p.data
        /\ saves' = Finish(p)
        /\ UNCHANGED <<now, settings, cache, accessOrder, loaded, last, puts>>

\* faulty variant: the catch block empties the map
SaveFailureRollback(c, ord) == [cache |-> <<>>, accessOrder |-> <<>>]

\* what the catch block of saveCache does to the in-memory state
SaveFailureEffect(c, ord) == [cache |-> c, accessOrder |-> ord]

\* loadData or saveData throws inside a pending save: caught and logged
SaveCacheThrows ==
    \E p \in BagToSet(saves) :
        /\ LET after == SaveFailureEffect(cache, accessOrder)
           IN /\ cache' = after.cache
              /\ accessOrder' = after.accessOrder
        /\ saves' = Finish(p)
        /\ last' = [last EXCEPT !.failed = TRUE]
        /\ UNCHANGED <<now, settings, blob, loaded, puts>>

(* ------------------------------ settings ------------------------------ *)

\* saveSettings: await this.saveData(this.settings)
SaveSettingsCall(s) == Start([phase |-> "write", data |-> SettingsBlob(s)])

ChangeSetting(s) ==
    /\ s # settings
    /\ settings' = s
    /\ saves' = SaveSettingsCall(s)
    /\ last' = Step("setting", NoKey)
    /\ puts' = Logged(cache)
    /\ UNCHANGED <<now, cache, accessOrder, blob, loaded>>

\* the 'Enable Caching' toggle
SetCacheResults == \E v \in BOOLEAN : ChangeSetting([settings EXCEPT !.cacheResults = v])

\* the 'Cache Duration (hours)' slider, shown while caching is enabled
SetMaxCacheAge ==
    /\ settings.cacheResults
    /\ \E v \in MaxCacheAges : ChangeSetting([settings EXCEPT !.maxCacheAge = v])

\* the onChange of the 'Max Cache Entries' text field, shown while caching is
\* enabled, for a text that parseInt reads as n >= 0
TypeMaxCacheEntries(n) ==
    /\ settings.cacheResults
    /\ n >= 0
    /\ ChangeSetting([settings EXCEPT !.maxCacheEntries = n])

SetMaxCacheEntries == \E n \in TypedMaxCacheEntries : TypeMaxCacheEntries(n)

(* -------------------------------- clock ------------------------------- *)

Tick ==
    /\ now + TickMs <= MaxTicks * TickMs
    /\ now' = now + TickMs
    /\ UNCHANGED <<settings, cache, accessOrder, blob, loaded, saves, last, puts>>

(* --------------------------- the request flow ------------------------- *)

\* the calls of executeVisionAction that the menu and the results modal make
MaxRequests == 2
Requests == 1..MaxRequests
\* DEFAULT_SETTINGS.rateLimitDelay, in milliseconds
RateLimitDelay == 500
\* the clock's step while requests run, and how many of them it takes
WaitMs == RateLimitDelay \div 2
MaxWaits == 3

Idle == [pc |-> "idle", key |-> NoKey, wake |-> 0]

\* faulty variant: the cached result is never taken
NeverTruthy(v) == FALSE

\* a string is truthy unless it is empty: null is not, a result is
Truthy(v) == v # Null

\* enforceRateLimit returns: lastRequestTime = Date.now(); then the note context
\* is read and the cache asked, all before the next task runs
PassRateLimit(i, k) ==
    /\ lastRequestTime' = now
    /\ GetCachedResult(k)
    /\ requests' = [requests EXCEPT ![i] =
          [pc |-> IF Truthy(GetCachedResultValue(cache, settings, k, now))
                  THEN "done" ELSE "preparing",
           key |-> k, wake |-> 0]]

\* executeVisionAction is called, from the menu or by the Re-run button
ExecuteVisionAction(i, k) ==
    /\ requests[i].pc = "idle"
    /\ IF now - lastRequestTime < RateLimitDelay
       THEN /\ requests' = [requests EXCEPT ![i] =
                  [pc |-> "waiting", key |-> k,
                   wake |-> now + (RateLimitDelay - (now - lastRequestTime))]]
            /\ UNCHANGED <<lastRequestTime, now, settings, cache, accessOrder, blob,
                           loaded, saves, last, puts>>
       ELSE PassRateLimit(i, k)

\* the setTimeout of enforceRateLimit fires
TimerFires(i) ==
    /\ requests[i].pc = "waiting"
    /\ now >= requests[i].wake
    /\ PassRateLimit(i, requests[i].key)

\* prepareImageForAPI resolves
PrepareDone(i) ==
    /\ requests[i].pc = "preparing"
    /\ requests' = [requests EXCEPT ![i].pc = "analyzing"]
    /\ UNCHANGED <<lastRequestTime, now, settings, cache, accessOrder, blob, loaded,
                   saves, last, puts>>

\* analyzeImage resolves: the result is cached and shown
AnalyzeDone(i, r) ==
    /\ requests[i].pc = "analyzing"
    /\ CacheResult(requests[i].key, r)
    /\ requests' = [requests EXCEPT ![i].pc = "done"]
    /\ UNCHANGED lastRequestTime

\* prepareImageForAPI or analyzeImage rejects: the catch block shows a notice
RequestFails(i) ==
    /\ requests[i].pc \in {"preparing", "analyzing"}
    /\ requests' = [requests EXCEPT ![i].pc = "failed"]
    /\ UNCHANGED <<lastRequestTime, now, settings, cache, accessOrder, blob, loaded,
                   saves, last, puts>>

\* the results modal or the notice is closed
Dismiss(i) ==
    /\ requests[i].pc \in {"done", "failed"}
    /\ requests' = [requests EXCEPT ![i] = Idle]
    /\ UNCHANGED <<lastRequestTime, now, settings, cache, accessOrder, blob, loaded,
                   saves, last, puts>>

\* no results modal made the request: it came from the menu
NoModal == Undefined

\* the click handler of the Re-run button of the results modal of request i:
\* executeVisionAction is called with the action, the image and the prompt of
\* the result shown, and awaited
Rerun(i, j) ==
    /\ requests[i].pc = "done"
    /\ j # i
    /\ ExecuteVisionAction(j, requests[i].key)
    /\ rerunBy' = [rerunBy EXCEPT ![j] = i]

\* the call a Re-run button awaits has returned and this.close() is next
ReturnPending(j) == rerunBy[j] # NoModal /\ requests[j].pc \in {"done", "failed"}

\* the rest of the click handler: the modal of the Re-run button is closed
RerunReturns(j) ==
    /\ ReturnPending(j)
    /\ rerunBy' = [rerunBy EXCEPT ![j] = NoModal]
    /\ requests' = [requests EXCEPT ![rerunBy[j]] =
                        IF requests[rerunBy[j]].pc = "done" THEN Idle ELSE @]
    /\ UNCHANGED <<lastRequestTime, now, settings, cache, accessOrder, blob, loaded,
                   saves, last, puts>>

\* time passes while requests run
Wait ==
    /\ now + WaitMs <= TickMs + MaxWaits * WaitMs
    /\ now' = now + WaitMs
    /\ UNCHANGED <<settings, cache, accessOrder, blob, loaded, saves, last, puts,
                   lastRequestTime, requests>>

\* a request is in flight from passing enforceRateLimit to its cacheResult or failure
InFlight(i) == requests[i].pc \in {"preparing", "analyzing"}

(* --------------------------- the fingerprint -------------------------- *)

\* A string is the sequence of its UTF-16 code units (charCodeAt); a key is the
\* sequence of its pieces: decimal digits, "-" and the action's name.

\* a 32-bit integer is kept as two 16-bit halves
Half == 2^16
Zero32 == [hi |-> 0, lo |-> 0]
IsInt32(h) == h.hi \in 0..(Half - 1) /\ h.lo \in 0..(Half - 1)

\* hash << 5
Shl5(h) == [hi |-> (h.hi * 32 + h.lo \div 2048) % Half, lo |-> (h.lo * 32) % Half]

\* a - b, to 32 bits
Sub32(a, b) ==
    LET borrow == IF a.lo < b.lo THEN 1 ELSE 0
    IN  [hi |-> (a.hi - b.hi - borrow + 2 * Half) % Half,
         lo |-> (a.lo - b.lo + Half) % Half]

\* a + char, to 32 bits
AddChar(a, c) == [hi |-> (a.hi + (a.lo + c) \div Half) % Half, lo |-> (a.lo + c) % Half]

\* the sign bit of the 32-bit integer
IsNegative(h) == h.hi >= Half \div 2

\* the magnitude of a negative 32-bit integer; that of -2^31 is 2^31
Negate(h) ==
    IF h.lo = 0 THEN [hi |-> Half - h.hi, lo |-> 0]
    ELSE [hi |-> Half - 1 - h.hi, lo |-> Half - h.lo]

\* faulty variant: the bits are read as an unsigned number
AbsKeepsBits(h) == h

\* Math.abs
MathAbs(h) == IF IsNegative(h) THEN Negate(h) ELSE h

DigitChars == <<"0", "1", "2", "3", "4", "5", "6", "7", "8", "9">>

\* Number.prototype.toString of a non-negative integer: its decimal digits
RECURSIVE NumberToString(_)
NumberToString(m) ==
    LET t == (m.hi % 10) * Half + m.lo
        q == [hi |-> m.hi \div 10, lo |-> t \div 10]
    IN  IF q = Zero32 THEN <<DigitChars[(t % 10) + 1]>>
        ELSE Append(NumberToString(q), DigitChars[(t % 10) + 1])

\* the loop of hashString over str[from..to], entered with hash; the range is
\* walked left to right, half by half, hash being a 32-bit integer after
\* every step (hash & hash)
RECURSIVE HashLoop(_, _, _, _)
HashLoop(str, hash, from, to) ==
    IF from > to THEN hash
    ELSE IF from = to THEN AddChar(Sub32(Shl5(hash), hash), str[from])
    ELSE LET mid == (from + to) \div 2
             left == HashLoop(str, hash, from, mid)
         IN  IF IsInt32(left) THEN HashLoop(str, left, mid + 1, to) ELSE left

HashString(str) ==
    IF Len(str) = 0 THEN NumberToString(Zero32)
    ELSE NumberToString(MathAbs(HashLoop(str, Zero32, 1, Len(str))))

\* String.prototype.substring(0, n)
Substring(str, n) == SubSeq(str, 1, IF Len(str) < n THEN Len(str) ELSE n)

\* the code unit of "-"
Hyphen == 45
\* the characters of textBefore and textAfter, and of customPrompt, that are hashed
ContextChars == 200
PromptChars == 500

CustomVision == "custom-vision"

\* faulty variant: the whole of textBefore and textAfter is hashed
HashWholeContext(noteContext) ==
    HashString(noteContext.noteName \o <<Hyphen>> \o noteContext.textBefore
               \o <<Hyphen>> \o noteContext.textAfter)

HashImageInfo(imageInfo) ==
    HashString(imageInfo.path \o <<Hyphen>> \o imageInfo.filename
               \o <<Hyphen>> \o imageInfo.mimeType)

HashNoteContext(noteContext) ==
    HashString(noteContext.noteName
               \o <<Hyphen>> \o Substring(noteContext.textBefore, ContextChars)
               \o <<Hyphen>> \o Substring(noteContext.textAfter, ContextChars))

\* faulty variant: the key carries the hour of the clock
KeyWithClock(imageInfo, action, noteContext, customPrompt) ==
    HashImageInfo(imageInfo) \o <<"-", action, "-", DigitChars[(now \div MsPerHour) + 1]>>

\* faulty variant: the prompt is hashed for every action
KeyAlwaysWithPrompt(imageInfo, action, noteContext, customPrompt) ==
    LET key0 == HashImageInfo(imageInfo) \o <<"-", action>>
        key1 == IF noteContext.given
                THEN key0 \o <<"-">> \o HashNoteContext(noteContext) ELSE key0
    IN  IF customPrompt.given /\ customPrompt.text # <<>>
        THEN key1 \o <<"-">> \o HashString(Substring(customPrompt.text, PromptChars))
        ELSE key1

\* an absent noteContext or customPrompt has given = FALSE; an empty
\* customPrompt is falsy as an absent one is
GenerateCacheKey(imageInfo, action, noteContext, customPrompt) ==
    LET key0 == HashImageInfo(imageInfo) \o <<"-", action>>
        key1 == IF noteContext.given
                THEN key0 \o <<"-">> \o HashNoteContext(noteContext) ELSE key0
    IN  IF customPrompt.given /\ customPrompt.text # <<>> /\ action = CustomVision
        THEN key1 \o <<"-">> \o HashString(Substring(customPrompt.text, PromptChars))
        ELSE key1

\* ---- the arguments the calls are made with

Rep(c, n) == [i \in 1..n |-> c]
StrAa == <<65, 97>>
StrBB == <<66, 66>>
\* five code units that hash to -2^31
StrMin == <<2325, 9, 30, 12, 2>>
\* texts that agree on the characters hashed and differ right after them
LongContext(c) == Rep(97, ContextChars) \o <<c>>
LongPrompt(c) == Rep(97, PromptChars) \o <<c>>

HashInputs ==
    {<<>>, <<97>>, StrAa, StrBB, StrMin, Rep(97, 6), Rep(122, 7), Rep(65535, 5),
     LongPrompt(120)}

BaseImage == [path |-> <<112>>, filename |-> StrAa, mimeType |-> <<109>>]
Images ==
    {BaseImage, [BaseImage EXCEPT !.path = <<113>>], [BaseImage EXCEPT !.filename = StrBB],
     [BaseImage EXCEPT !.mimeType = <<110>>]}

NoContext ==
    [given |-> FALSE, noteName |-> <<>>, textBefore |-> <<>>, textAfter |-> <<>>,
     matchIndex |-> 0]
BaseContext ==
    [given |-> TRUE, noteName |-> <<110>>, textBefore |-> LongContext(120),
     textAfter |-> LongContext(120), matchIndex |-> 0]
NoteContexts ==
    {NoContext, BaseContext,
     [BaseContext EXCEPT !.matchIndex = 1],
     [BaseContext EXCEPT !.noteName = <<111>>],
     [BaseContext EXCEPT !.textBefore = LongContext(121)],
     [BaseContext EXCEPT !.textBefore = <<98>>],
     [BaseContext EXCEPT !.textAfter = LongContext(121)],
     [BaseContext EXCEPT !.textAfter = <<98>>]}

NoPrompt == [given |-> FALSE, text |-> <<>>]
BasePrompt == [given |-> TRUE, text |-> StrAa]
Prompts ==
    {NoPrompt, BasePrompt}
    \cup {[given |-> TRUE, text |-> str] :
             str \in {<<>>, StrBB, LongPrompt(120), LongPrompt(121)}}

Actions == {CustomVision, "smart-summary"}

KeyInput(imageInfo, action, noteContext, customPrompt) ==
    [imageInfo |-> imageInfo, action |-> action, noteContext |-> noteContext,
     customPrompt |-> customPrompt]

KeyInputs ==
    {KeyInput(img, CustomVision, BaseContext, BasePrompt) : img \in Images}
    \cup {KeyInput(BaseImage, CustomVision, nc, BasePrompt) : nc \in NoteContexts}
    \cup {KeyInput(BaseImage, act, BaseContext, pr) : act \in Actions, pr \in Prompts}
    \cup {KeyInput(BaseImage, act, NoContext, pr) :
             act \in Actions, pr \in {NoPrompt, BasePrompt}}

NoKeyCall ==
    [called |-> FALSE, in |-> KeyInput(BaseImage, CustomVision, NoContext, NoPrompt),
     key |-> <<>>]
NoHashCall == [called |-> FALSE, in |-> <<>>, out |-> <<>>]

\* the key of each of the arguments
KeyOf ==
    [inp \in KeyInputs |->
        GenerateCacheKey(inp.imageInfo, inp.action, inp.noteContext, inp.customPrompt)]
\* the hash of each of the strings
HashOf == [str \in HashInputs |-> HashString(str)]

\* getCachedResult, cacheResult and invalidate each begin by computing the key
GenerateCacheKeyCall(inp) ==
    /\ keyCall' = [called |-> TRUE, in |-> inp, key |-> KeyOf[inp]]
    /\ prevKeyCall' = keyCall
    /\ UNCHANGED <<hashCall, sectionCall, linksCall, contextCall, prompt, insertCall>>

HashStringCall(str) ==
    /\ hashCall' = [called |-> TRUE, in |-> str, out |-> HashOf[str]]
    /\ UNCHANGED <<keyCall, prevKeyCall, sectionCall, linksCall, contextCall, prompt, insertCall>>

(* ------------------------- extractSectionData ------------------------- *)

\* A document is the sequence of its characters; offsets count from 0 as
\* String offsets do.
MaxHeadings == 3
MaxLevel == 3
\* the characters of sectionText that are kept
SectionChars == 1200
Titles == <<"A", "B", "C", "D", "E">>

IsSpace(c) == c \in {" ", "\n"}

\* String.prototype.slice(from, to) for offsets that are not negative
Slice(str, from, to) ==
    LET e == IF to > Len(str) THEN Len(str) ELSE to
    IN  IF from >= e THEN <<>> ELSE SubSeq(str, from + 1, e)

\* String.prototype.trim
RECURSIVE TrimStart(_)
TrimStart(str) ==
    IF str # <<>> /\ IsSpace(Head(str)) THEN TrimStart(Tail(str)) ELSE str
RECURSIVE TrimEnd(_)
TrimEnd(str) ==
    IF str # <<>> /\ IsSpace(str[Len(str)]) THEN TrimEnd(SubSeq(str, 1, Len(str) - 1)) ELSE str
Trim(str) == TrimEnd(TrimStart(str))

\* the number of times c stands at the start of str
RECURSIVE LeadingCount(_, _)
LeadingCount(str, c) ==
    IF str # <<>> /\ Head(str) = c THEN 1 + LeadingCount(Tail(str), c) ELSE 0

\* the offset at which the line that starts at offset o ends
RECURSIVE LineEnd(_, _)
LineEnd(allText, o) ==
    IF o >= Len(allText) \/ allText[o + 1] = "\n" THEN o ELSE LineEnd(allText, o + 1)

\* /^ {0,3}(#{1,6})\s+(.+)$/ on the line that starts at offset o: up to three
\* spaces, one to six # marks, white space, a title of at least one character.
\* The result is the heading, or a record with level 0 when the line is none.
HeadingMatch(allText, o) ==
    LET line == Slice(allText, o, LineEnd(allText, o))
        spaces == LeadingCount(line, " ")
        marks == LeadingCount(Slice(line, spaces, Len(line)), "#")
        rest == Slice(line, spaces + marks, Len(line))
    IN  IF spaces <= 3 /\ marks \in 1..6 /\ Len(rest) >= 2 /\ rest[1] = " "
        THEN [level |-> marks, title |-> Trim(rest), index |-> o]
        ELSE [level |-> 0, title |-> <<>>, index |-> o]

\* the while loop of headingRegex.exec from the line that starts at offset o
RECURSIVE HeadingsFrom(_, _)
HeadingsFrom(allText, o) ==
    IF o >= Len(allText) THEN <<>>
    ELSE LET m == HeadingMatch(allText, o)
             later == HeadingsFrom(allText, LineEnd(allText, o) + 1)
         IN  IF m.level > 0 THEN <<m>> \o later ELSE later

\* while (path.length >= h.level) path.pop()
PopToLevel(path, level) ==
    IF Len(path) >= level THEN SubSeq(path, 1, level - 1) ELSE path

\* h.index + m?.[0]?.length || h.index: the loop of exec has ended, so m is
\* null, the sum is NaN and the value is h.index
SectionStartOf(h) == h.index

\* the inner for loop: the offset of the first heading after the i-th whose
\* level is <= its level; sectionEnd is left as it was when there is none
SectionEndAfter(headings, i, sectionEnd) ==
    LET closing == {j \in (i + 1)..Len(headings) : headings[j].level <= headings[i].level}
    IN  IF closing = {} THEN sectionEnd
        ELSE headings[CHOOSE j \in closing : \A k \in closing : j <= k].index

\* the for loop over headings[i..], which breaks at the first heading after
\* the anchor; st is the path, the section title and the section's bounds so far
RECURSIVE SectionLoop(_, _, _, _)
SectionLoop(headings, anchorIndex, i, st) ==
    IF i > Len(headings) THEN st
    ELSE IF headings[i].index <= anchorIndex
         THEN SectionLoop(headings, anchorIndex, i + 1,
                          [path |-> Append(PopToLevel(st.path, headings[i].level),
                                           headings[i].title),
                           sectionTitle |-> headings[i].title,
                           sectionStart |-> SectionStartOf(headings[i]),
                           sectionEnd |-> SectionEndAfter(headings, i, st.sectionEnd)])
         ELSE st

ExtractSectionData(allText, anchorIndex) ==
    LET headings == HeadingsFrom(allText, 0)
        st == SectionLoop(headings, anchorIndex, 1,
                          [path |-> <<>>, sectionTitle |-> <<>>, sectionStart |-> 0,
                           sectionEnd |-> Len(allText)])
    IN  [sectionTitle |-> st.sectionTitle, sectionPath |-> st.path,
         sectionText |->
            Substring(Trim(Slice(allText, st.sectionStart, st.sectionEnd)), SectionChars)]

\* ---- the documents and the offsets the calls are made with

\* the line of a heading of this level and title, and the lines of a section:
\* its heading and one line of text
HeadingLine(level, title) == [i \in 1..level |-> "#"] \o <<" ", title, "\n">>
SectionLines(level, title) == HeadingLine(level, title) \o <<"t", "\n">>

RECURSIVE Sections(_, _)
Sections(levels, n) ==
    IF n = 0 THEN <<>>
    ELSE Sections(levels, n - 1) \o SectionLines(levels[n], Titles[n])

\* a line of text, then up to MaxHeadings sections
GeneratedDocuments ==
    UNION {{<<"p", "\n">> \o Sections(lv, n) : lv \in [1..n -> 1..MaxLevel]} :
              n \in 0..MaxHeadings}

\* # A / text / ## B / ![[img.png]] / more
ExampleDocument ==
    <<"#", " ", "A", "\n", "t", "e", "x", "t", "\n", "#", "#", " ", "B", "\n",
      "!", "[", "[", "i", "m", "g", ".", "p", "n", "g", "]", "]", "\n",
      "m", "o", "r", "e">>
\* the offset of the image in it
ExampleAnchor == 14

Documents == GeneratedDocuments \cup {ExampleDocument}

\* the offsets an image can have in a document: the start of any line
AnchorIndexes(allText) ==
    {0} \cup {o \in 1..(Len(allText) - 1) : allText[o] = "\n"}

\* the section of each of the documents at each of the offsets
SectionOf ==
    [allText \in Documents |->
        [a \in AnchorIndexes(allText) |-> ExtractSectionData(allText, a)]]
HeadingsOf == [allText \in Documents |-> HeadingsFrom(allText, 0)]

NoSectionCall ==
    [called |-> FALSE, allText |-> <<>>, headings |-> <<>>, anchorIndex |-> 0,
     sectionPath |-> <<>>, sectionTitle |-> <<>>, sectionText |-> <<>>]

ExtractSectionDataCall(allText, anchorIndex) ==
    /\ sectionCall' =
          [called |-> TRUE, allText |-> allText, headings |-> HeadingsOf[allText],
           anchorIndex |-> anchorIndex,
           sectionPath |-> SectionOf[allText][anchorIndex].sectionPath,
           sectionTitle |-> SectionOf[allText][anchorIndex].sectionTitle,
           sectionText |-> SectionOf[allText][anchorIndex].sectionText]
    /\ UNCHANGED <<keyCall, prevKeyCall, hashCall, linksCall, contextCall, prompt, insertCall>>

(* ------------------------- the bound displayed ------------------------ *)

\* the number the 'Max Cache Entries' field shows while none is configured
DisplayedDefault == 200

\* String(this.plugin.settings.maxCacheEntries ?? 200)
DisplayedMaxCacheEntries(s) ==
    NumberToString([hi |-> 0,
                    lo |-> IF s.maxCacheEntries = Undefined THEN DisplayedDefault
                           ELSE s.maxCacheEntries])

\* the keys of a run of puts that fills the store: "1", "2", ...
FillKey(n) == ToString(n)

(* ------------------------ extractRelatedWikiLinks ---------------------- *)

\* const windowRadius = 800: the characters kept on each side of the image
WindowRadius == 800

Larger(a, b) == IF a >= b THEN a ELSE b
Smaller(a, b) == IF a <= b THEN a ELSE b

\* a window that starts with the document, whatever the match
WindowStartsAtZero(matchIndex) == 0

\* Math.max(0, matchIndex - windowRadius)
WindowStart(matchIndex) == Larger(0, matchIndex - WindowRadius)

\* Math.min(allText.length, matchIndex + matchLength + windowRadius)
WindowEnd(allText, matchIndex, matchLength) ==
    Smaller(Len(allText), matchIndex + matchLength + WindowRadius)

\* the character at offset o, "" past the end
CharAt(str, o) == IF o < Len(str) THEN str[o + 1] ELSE ""

\* the first offset from `from` on that holds one of stops, Len(str) if none does
FirstOf(str, from, stops) ==
    LET hits == {q \in from..(Len(str) - 1) : str[q + 1] \in stops}
    IN  IF hits = {} THEN Len(str) ELSE CHOOSE q \in hits : \A r \in hits : q <= r

NoLinkMatch == [matched |-> FALSE, index |-> 0, end |-> 0, target |-> <<>>, alias |-> <<>>]

\* /\[\[([^\]|\n]+)(?:\|([^\]]+))?\]\]/ tried at offset p
LinkMatch(str, p) ==
    LET q == FirstOf(str, p + 2, {"]", "|", "\n"})
        r == FirstOf(str, q + 1, {"]"})
    IN  IF ~(CharAt(str, p) = "[" /\ CharAt(str, p + 1) = "[") \/ q = p + 2
        THEN NoLinkMatch
        ELSE IF CharAt(str, q) = "]" /\ CharAt(str, q + 1) = "]"
        THEN [matched |-> TRUE, index |-> p, end |-> q + 2,
              target |-> Slice(str, p + 2, q), alias |-> <<>>]
        ELSE IF CharAt(str, q) = "|" /\ r > q + 1
                /\ CharAt(str, r) = "]" /\ CharAt(str, r + 1) = "]"
        THEN [matched |-> TRUE, index |-> p, end |-> r + 2,
              target |-> Slice(str, p + 2, q), alias |-> Slice(str, q + 1, r)]
        ELSE NoLinkMatch

\* the offsets at which two opening brackets stand
LinkStarts(str) ==
    {p \in 0..(Len(str) - 2) : str[p + 1] = "[" /\ str[p + 2] = "["}

\* the matches linkRegex.exec yields in turn, from lastIndex on; found holds
\* the match at each offset of LinkStarts
RECURSIVE ExecFrom(_, _)
ExecFrom(found, lastIndex) ==
    LET starts == {p \in DOMAIN found : p >= lastIndex /\ found[p].matched}
    IN  IF starts = {} THEN <<>>
        ELSE LET p == CHOOSE s \in starts : \A t \in starts : s <= t
             IN  <<found[p]>> \o ExecFrom(found, found[p].end)

LinkMatchesFrom(str, lastIndex) ==
    ExecFrom([p \in LinkStarts(str) |-> LinkMatch(str, p)], lastIndex)

\* the vault: the files a link target resolves to, and the first heading the
\* metadata cache holds for each (<<>> when the cache has no sections)
VaultFiles == {<<"O">>, <<"P">>, <<"i">>}
FirstHeading(basename) == IF basename = <<"O">> THEN <<"H">> ELSE <<>>

\* a vault in which every link target resolves
AllResolve(target) == TRUE

\* getFirstLinkpathDest(target, sourcePath) yields a TFile
Resolves(target) == target \in VaultFiles

FilePath(basename) == <<"v", "/">> \o basename

\* the record pushed for a match whose target resolves
LinkRecord(m) ==
    LET target == Trim(m.target)
        alias == Trim(m.alias)
        heading == FirstHeading(target)
    IN  [linkText |-> IF alias # <<>> THEN alias ELSE target,
         path |-> FilePath(target),
         title |-> target,
         excerpt |-> IF heading # <<>> THEN heading ELSE target]

RECURSIVE LinkRecords(_)
LinkRecords(ms) ==
    IF ms = <<>> THEN <<>>
    ELSE IF Resolves(Trim(Head(ms).target))
         THEN <<LinkRecord(Head(ms))>> \o LinkRecords(Tail(ms))
         ELSE LinkRecords(Tail(ms))

ExtractRelatedWikiLinks(allText, matchIndex, matchLength) ==
    LET start == WindowStart(matchIndex)
        end == WindowEnd(allText, matchIndex, matchLength)
        windowText == Slice(allText, start, end)
    IN  LinkRecords(LinkMatchesFrom(windowText, 0))

\* ---- the documents the calls are made with: filler text, the image embed
\* at matchIndex, and links placed at chosen offsets around it

ImageEmbed == <<"!", "[", "[", "i", "]", "]">>
LinkO == <<"[", "[", "O", "]", "]">>
LinkN == <<"[", "[", "N", "]", "]">>
LinkP == <<"[", "[", "P", "]", "]">>
LinkAlias == <<"[", "[", "O", "|", "a", "]", "]">>

\* filler with each text of placed written at its offset
Compose(length, placed) ==
    [i \in 1..length |->
        IF \E pl \in placed : i - 1 \in pl.at..(pl.at + Len(pl.text) - 1)
        THEN LET pl == CHOOSE pl \in placed : i - 1 \in pl.at..(pl.at + Len(pl.text) - 1)
             IN  pl.text[i - pl.at]
        ELSE "x"]

LongLength == 2 * (WindowRadius + 100)
LongMatchIndex == WindowRadius + 100
ShortLength == 5 * Len(ImageEmbed)
ShortMatchIndex == 2 * Len(ImageEmbed)

\* how far before the match the first link starts
BeforeDistances == {900, 803, 800, 700}
\* how far after the end of the match the last link starts
AfterDistances == {0, 795, 796, 800}

BeforePlacements ==
    {{}} \cup {{[at |-> LongMatchIndex - d, text |-> t]} :
                  d \in BeforeDistances, t \in {LinkO, LinkN, LinkAlias}}
         \cup {{[at |-> LongMatchIndex - 700, text |-> t],
                [at |-> LongMatchIndex - 10, text |-> LinkO]} : t \in {LinkO, LinkN}}
AfterPlacements ==
    {{}} \cup {{[at |-> LongMatchIndex + Len(ImageEmbed) + d, text |-> LinkO]} :
                  d \in AfterDistances}

\* a call: the length of the document, the texts placed in it, and the span
LongCalls ==
    {[length |-> LongLength,
      placed |-> {[at |-> LongMatchIndex, text |-> ImageEmbed]} \cup b \cup a,
      matchIndex |-> LongMatchIndex, matchLength |-> Len(ImageEmbed)] :
        b \in BeforePlacements, a \in AfterPlacements}

\* short documents, in which the window is cut by the document's two ends;
\* the image is found, or the call is made for offset 0 and length 0
ShortCalls ==
    {[length |-> ShortLength,
      placed |-> {[at |-> ShortMatchIndex, text |-> ImageEmbed],
                  [at |-> 0, text |-> t],
                  [at |-> ShortLength - Len(u), text |-> u]},
      matchIndex |-> mi, matchLength |-> IF mi = 0 THEN 0 ELSE Len(ImageEmbed)] :
        t \in {LinkO, LinkN}, u \in {LinkO, LinkP}, mi \in {0, ShortMatchIndex}}

LinkCalls == LongCalls \cup ShortCalls

LinksOf ==
    [c \in LinkCalls |->
        LET allText == Compose(c.length, c.placed)
        IN  [allText |-> allText,
             relatedLinks |-> ExtractRelatedWikiLinks(allText, c.matchIndex, c.matchLength)]]

NoLinksCall ==
    [called |-> FALSE, allText |-> <<>>, matchIndex |-> 0, matchLength |-> 0,
     relatedLinks |-> <<>>]

ExtractRelatedWikiLinksCall(c) ==
    /\ linksCall' =
          [called |-> TRUE, allText |-> LinksOf[c].allText, matchIndex |-> c.matchIndex,
           matchLength |-> c.matchLength, relatedLinks |-> LinksOf[c].relatedLinks]
    /\ UNCHANGED <<keyCall, prevKeyCall, hashCall, sectionCall, contextCall, prompt, insertCall>>

(* --------------------------- extractNoteContext ------------------------ *)

\* the characters /[.*+?^${}()|[\]\\]/ names
MetaChars == {".", "*", "+", "?", "^", "$", "{", "}", "(", ")", "|", "[", "]", "\\"}

\* a replacement that leaves the string as it is
EscapeNothing(str) == str

\* str.replace(/[.*+?^${}()|[\]\\]/g, '\\$&')
RECURSIVE EscapeRegExp(_)
EscapeRegExp(str) ==
    IF str = <<>> THEN <<>>
    ELSE (IF Head(str) \in MetaChars THEN <<"\\", Head(str)>> ELSE <<Head(str)>>)
            \o EscapeRegExp(Tail(str))

\* what new RegExp reads in a pattern source: a backslash makes the next
\* character stand for itself, a bare dot stands for any character of a line
RECURSIVE Atoms(_)
Atoms(source) ==
    IF source = <<>> THEN <<>>
    ELSE IF Head(source) = "\\" /\ Len(source) >= 2
         THEN <<[any |-> FALSE, c |-> source[2]]>> \o Atoms(Tail(Tail(source)))
         ELSE <<[any |-> Head(source) = ".", c |-> Head(source)]>> \o Atoms(Tail(source))

\* the fixed text of a pattern
Lit(chars) == [k \in DOMAIN chars |-> [any |-> FALSE, c |-> chars[k]]]

\* the 'i' flag: letters are compared without their case
ToLower(c) ==
    CASE c = "A" -> "a" [] c = "C" -> "c" [] c = "G" -> "g" [] c = "I" -> "i"
      [] c = "M" -> "m" [] c = "P" -> "p" [] c = "R" -> "r" [] c = "S" -> "s"
      [] c = "T" -> "t" [] c = "U" -> "u" [] c = "X" -> "x" [] OTHER -> c

AtomsMatchAt(str, o, atoms) ==
    /\ o + Len(atoms) <= Len(str)
    /\ \A k \in DOMAIN atoms :
          IF atoms[k].any THEN str[o + k] # "\n"
          ELSE ToLower(str[o + k]) = ToLower(atoms[k].c)

\* !\[\[${escaped}\]\] tried at offset o: the length matched, 0 if none;
\* id holds the atoms of the escaped string
WikiEmbedAt(str, o, id) ==
    LET pat == Lit(<<"!", "[", "[">>) \o id \o Lit(<<"]", "]">>)
    IN  IF AtomsMatchAt(str, o, pat) THEN Len(pat) ELSE 0

\* !\[[^\]]*?\]\(${escaped}\) tried at offset o
MarkdownImageAt(str, o, id) ==
    LET q == FirstOf(str, o + 2, {"]"})
        pat == Lit(<<"]", "(">>) \o id \o Lit(<<")">>)
    IN  IF AtomsMatchAt(str, o, Lit(<<"!", "[">>)) /\ AtomsMatchAt(str, q, pat)
        THEN q + Len(pat) - o ELSE 0

\* <img[^>]+src=["']${escaped}["'][^>]*> tried at offset o
ImgTagAt(str, o, id) ==
    LET e == FirstOf(str, o + 4, {">"})
        attrs == {k \in (o + 5)..e :
                     /\ AtomsMatchAt(str, k, Lit(<<"s", "r", "c", "=">>))
                     /\ CharAt(str, k + 4) \in {"\"", "'"}
                     /\ AtomsMatchAt(str, k + 5, id)
                     /\ CharAt(str, k + 5 + Len(id)) \in {"\"", "'"}
                     /\ k + 5 + Len(id) + 1 <= e}
    IN  IF AtomsMatchAt(str, o, Lit(<<"<", "i", "m", "g">>)) /\ e < Len(str) /\ attrs # {}
        THEN e + 1 - o ELSE 0

\* the six alternatives of the pattern, in the order they are joined
PatternAt(str, o, escapedPath, escapedImagePath) ==
    LET lengths == <<WikiEmbedAt(str, o, escapedPath),
                     WikiEmbedAt(str, o, escapedImagePath),
                     MarkdownImageAt(str, o, escapedPath),
                     MarkdownImageAt(str, o, escapedImagePath),
                     ImgTagAt(str, o, escapedPath),
                     ImgTagAt(str, o, escapedImagePath)>>
        hits == {k \in DOMAIN lengths : lengths[k] > 0}
    IN  IF hits = {} THEN 0 ELSE lengths[CHOOSE k \in hits : \A j \in hits : k <= j]

NoMatch == [found |-> FALSE, index |-> 0, length |-> 0]

\* allText.match(createImageSearchPattern(imageInfo))
MatchImage(allText, imageInfo) ==
    LET escapedPath == Atoms(EscapeRegExp(imageInfo.url))
        escapedImagePath == Atoms(EscapeRegExp(imageInfo.path))
        starts == {o \in 0..(Len(allText) - 1) :
                      PatternAt(allText, o, escapedPath, escapedImagePath) > 0}
    IN  IF starts = {} THEN NoMatch
        ELSE LET o == CHOOSE s \in starts : \A t \in starts : s <= t
             IN  [found |-> TRUE, index |-> o,
                  length |-> PatternAt(allText, o, escapedPath, escapedImagePath)]

\* t.replace(/^#/, '')
StripHash(tag) == IF tag # <<>> /\ Head(tag) = "#" THEN Tail(tag) ELSE tag

\* the tags of the metadata cache, then the string tags of the frontmatter;
\* frontmatter is the set of the frontmatters the cache holds: one or none
ExtractNoteMetadata(fileCache) ==
    [frontmatter |-> fileCache.frontmatter,
     tags |-> [k \in DOMAIN fileCache.tags |-> StripHash(fileCache.tags[k])]
                \o (IF fileCache.frontmatter = {} THEN <<>>
                    ELSE LET fm == CHOOSE f \in fileCache.frontmatter : TRUE
                         IN  [k \in DOMAIN fm.tags |-> StripHash(fm.tags[k])])]

\* the context built around the span the image was found at
FoundContext(allText, match, fileCache) ==
    LET matchIndex == match.index
        matchLength == match.length
        sectionData == ExtractSectionData(allText, matchIndex)
        meta == ExtractNoteMetadata(fileCache)
    IN  [textBefore |-> Trim(Slice(allText, 0, matchIndex)),
         textAfter |-> Trim(Slice(allText, matchIndex + matchLength, Len(allText))),
         matchIndex |-> matchIndex,
         matchLength |-> matchLength,
         relatedLinks |-> ExtractRelatedWikiLinks(allText, matchIndex, matchLength),
         sectionTitle |-> sectionData.sectionTitle,
         sectionPath |-> sectionData.sectionPath,
         sectionText |-> sectionData.sectionText,
         tags |-> meta.tags,
         frontmatter |-> meta.frontmatter]

\* a fallback that takes the end of the note for the place of the image
FallbackAtEnd(allText, fileCache) ==
    [FoundContext(allText, [index |-> Len(allText), length |-> 0], fileCache)
        EXCEPT !.textBefore = <<>>, !.textAfter = <<>>,
               !.matchIndex = Undefined, !.matchLength = Undefined]

\* the fallback: the context of a note the image was not found in
FallbackContext(allText, fileCache) ==
    LET sectionData == ExtractSectionData(allText, 0)
        meta == ExtractNoteMetadata(fileCache)
    IN  [textBefore |-> <<>>,
         textAfter |-> <<>>,
         matchIndex |-> Undefined,
         matchLength |-> Undefined,
         relatedLinks |-> ExtractRelatedWikiLinks(allText, 0, 0),
         sectionTitle |-> sectionData.sectionTitle,
         sectionPath |-> sectionData.sectionPath,
         sectionText |-> sectionData.sectionText,
         tags |-> meta.tags,
         frontmatter |-> meta.frontmatter]

ExtractNoteContext(allText, imageInfo, fileCache) ==
    LET match == MatchImage(allText, imageInfo)
    IN  IF match.found THEN FoundContext(allText, match, fileCache)
        ELSE FallbackContext(allText, fileCache)

\* ---- the notes the calls are made with: up to three pieces of text

\* the image: its resource url and its path in the vault
NoteImage == [url |-> <<"u">>, path |-> <<"a", ".", "p">>]

\* what the metadata cache holds for the note
NoteCache ==
    [tags |-> << <<"#", "x">> >>, frontmatter |-> {[tags |-> << <<"y">>, <<"#", "z">> >>]}]

Pieces ==
    { <<"t", " ">>,
      <<"!", "[", "[", "a", ".", "p", "]", "]">>,
      <<"!", "[", "[", "A", ".", "P", "]", "]">>,
      <<"!", "[", "[", "a", "x", "p", "]", "]">>,
      <<"!", "[", "t", "]", "(", "a", ".", "p", ")">>,
      <<"<", "I", "m", "g", " ", "s", "r", "c", "=", "'", "u", "'", ">">>,
      <<"[", "[", "O", "]", "]">>,
      <<"#", " ", "A", "\n">> }

Notes ==
    {a \o b \o c : a, b, c \in Pieces \cup {<<>>}} \ {<<>>}

ContextOf == [allText \in Notes |-> ExtractNoteContext(allText, NoteImage, NoteCache)]

ExtractNoteContextCall(allText) ==
    /\ contextCall' = [called |-> TRUE, allText |-> allText, imageInfo |-> NoteImage,
                       fileCache |-> NoteCache, noteContext |-> ContextOf[allText]]
    /\ UNCHANGED <<keyCall, prevKeyCall, hashCall, sectionCall, linksCall, prompt, insertCall>>

NoContextCall == [called |-> FALSE]

(* --------------------------- the prompt modal ------------------------- *)

\* the texts typed into the text area of the prompt
Texts == {<<>>, <<" ">>, <<" ", "p", " ">>}

\* the argument of onSubmit: null or a text
NullValue == [isNull |-> TRUE, text |-> <<>>]
TextValue(t) == [isNull |-> FALSE, text |-> t]

\* this.value.trim() ? this.value.trim() : null
RunValue(v) == IF Trim(v) # <<>> THEN TextValue(Trim(v)) ELSE NullValue

\* !prompt: null and the empty string are falsy
Falsy(v) == v.isNull \/ v.text = <<>>

\* !!(customPrompt && customPrompt.trim())
UsingCustom(v) == ~Falsy(v) /\ Trim(v.text) # <<>>

\* the images extractAllImagesInNote finds in the note
BulkImages == <<"a", "b">>
NoImages == <<>>

\* the cache key of an image under 'custom-vision' with the prompt typed
CustomKey == [a |-> "c", b |-> "d"]

\* the cache key of an image of the bulk command: under 'extract-facts' the
\* prompt is no part of it
BulkKey(image, v) == IF UsingCustom(v) THEN CustomKey[image] ELSE image

\* no prompt has been opened
NoHandler ==
    [caller |-> "none", modal |-> "none", value |-> <<>>, submits |-> <<>>,
     pc |-> "idle", images |-> NoImages, index |-> 0, wake |-> 0, calls |-> 0]

\* the handler's promise was resolved with this value
Resolved == prompt.submits[Len(prompt.submits)]

BulkRunning == {"waiting", "preparing", "analyzing", "consolidating"}

\* one handler at a time: no prompt is open, no request of the menu runs and
\* no bulk analysis runs
CanOpen ==
    /\ prompt.modal # "open"
    /\ prompt.pc \notin BulkRunning
    /\ requests[1].pc = "idle"

\* the menu item of 'custom-vision' is clicked: new PromptModal(...).open()
OpenMenuPrompt ==
    /\ CanOpen
    /\ prompt' = [NoHandler EXCEPT !.caller = "menu", !.modal = "open", !.pc = "awaiting"]
    /\ UNCHANGED <<storeVars, lastRequestTime, requests>>

\* the command 'Analyze All Images in Current Note': without images a notice
\* is shown, else the prompt is opened
AnalyzeAllImagesInNote ==
    /\ CanOpen
    /\ \E images \in {NoImages, BulkImages} :
          prompt' = IF images = NoImages
                    THEN [NoHandler EXCEPT !.caller = "bulk", !.pc = "returned"]
                    ELSE [NoHandler EXCEPT !.caller = "bulk", !.modal = "open",
                                           !.pc = "awaiting", !.images = images]
    /\ UNCHANGED <<storeVars, lastRequestTime, requests>>

\* text.onChange((value) => this.value = value)
TypeText ==
    /\ prompt.modal = "open"
    /\ \E t \in Texts : t # prompt.value /\ prompt' = [prompt EXCEPT !.value = t]
    /\ UNCHANGED <<storeVars, lastRequestTime, requests>>

\* await this.enforceRateLimit() at the head of iteration i of the bulk loop
BulkEnforceRateLimit(p, i) ==
    IF now - lastRequestTime < RateLimitDelay
    THEN /\ prompt' = [p EXCEPT !.pc = "waiting", !.index = i,
                                !.wake = now + (RateLimitDelay - (now - lastRequestTime))]
         /\ UNCHANGED lastRequestTime
    ELSE /\ prompt' = [p EXCEPT !.pc = "preparing", !.index = i]
         /\ lastRequestTime' = now

\* the end of iteration i: the next image, or consolidateAnalyses after the last
BulkAdvance(p, i) ==
    IF i < Len(p.images)
    THEN BulkEnforceRateLimit(p, i + 1)
    ELSE /\ prompt' = [p EXCEPT !.pc = "consolidating", !.calls = @ + 1]
         /\ UNCHANGED lastRequestTime

\* analyzeAllImagesInNote after its prompt resolved: without a prompt it falls
\* back to 'extract-facts', and the loop starts
BulkResumes(p) ==
    /\ BulkEnforceRateLimit(p, 1)
    /\ UNCHANGED <<storeVars, requests>>

\* the onClick of the menu item after its prompt resolved
MenuResumes(p, v) ==
    IF Falsy(v)
    THEN /\ prompt' = [p EXCEPT !.pc = "returned"]
         /\ UNCHANGED <<storeVars, lastRequestTime, requests>>
    ELSE /\ prompt' = [p EXCEPT !.pc = "executing"]
         /\ ExecuteVisionAction(1, CustomKey["a"])

\* this.close(); this.onSubmit(v): the promise resolves and the handler runs on
OnSubmit(v) ==
    /\ prompt.modal = "open"
    /\ LET p == [prompt EXCEPT !.modal = "closed", !.submits = Append(@, v)]
       IN IF prompt.caller = "menu" THEN MenuResumes(p, v) ELSE BulkResumes(p)

\* the click handlers of the Run and the Cancel button
ClickRun == OnSubmit(RunValue(prompt.value))
ClickCancel == OnSubmit(NullValue)

\* the modal is dismissed with Escape or a click outside it: Modal.close()
\* runs onClose, which empties contentEl
DismissPrompt ==
    /\ prompt.modal = "open"
    /\ prompt' = [prompt EXCEPT !.modal = "closed"]
    /\ UNCHANGED <<storeVars, lastRequestTime, requests>>

\* prepareImageForAPI of the menu's request resolves: analyzeImage is called
MenuPrepareDone ==
    /\ PrepareDone(1)
    /\ prompt' = [prompt EXCEPT !.calls = @ + 1]

\* the setTimeout of enforceRateLimit fires in the bulk loop
BulkTimerFires ==
    /\ prompt.pc = "waiting"
    /\ now >= prompt.wake
    /\ lastRequestTime' = now
    /\ prompt' = [prompt EXCEPT !.pc = "preparing"]
    /\ UNCHANGED <<storeVars, requests>>

\* prepareImageForAPI resolves in the bulk loop: the cache is asked, and on a
\* miss analyzeImage is called
BulkPrepareDone ==
    /\ prompt.pc = "preparing"
    /\ LET k == BulkKey(prompt.images[prompt.index], Resolved)
       IN /\ GetCachedResult(k)
          /\ IF Truthy(GetCachedResultValue(cache, settings, k, now))
             THEN BulkAdvance(prompt, prompt.index)
             ELSE /\ prompt' = [prompt EXCEPT !.pc = "analyzing", !.calls = @ + 1]
                  /\ UNCHANGED lastRequestTime
    /\ UNCHANGED requests

\* analyzeImage resolves in the bulk loop: the content is cached
BulkAnalyzeDone(r) ==
    /\ prompt.pc = "analyzing"
    /\ CacheResult(BulkKey(prompt.images[prompt.index], Resolved), r)
    /\ BulkAdvance(prompt, prompt.index)
    /\ UNCHANGED requests

\* consolidateAnalyses resolves: the result is shown
BulkConsolidateDone ==
    /\ prompt.pc = "consolidating"
    /\ prompt' = [prompt EXCEPT !.pc = "done"]
    /\ UNCHANGED <<storeVars, lastRequestTime, requests>>

\* an awaited call of the bulk command rejects: the catch block shows a notice
BulkFails ==
    /\ prompt.pc \in {"preparing", "analyzing", "consolidating"}
    /\ prompt' = [prompt EXCEPT !.pc = "failed"]
    /\ UNCHANGED <<storeVars, lastRequestTime, requests>>

(* ------------------- the results modal's insert buttons --------------- *)

\* !x for an optional number: undefined and 0 are falsy
FalsyNumber(x) == x = Undefined \/ x = 0

\* x == null for an optional number
IsNullish(x) == x = Undefined

\* formatContent: content.trim()
FormatContent(content) == Trim(content)

\* editor.replaceSelection(text): the selection from..to gives way to the text
ReplaceSelection(doc, sel, text) ==
    Slice(doc, 0, sel.from) \o text \o Slice(doc, sel.to, Len(doc))

\* the guard of both handlers: no usable match span
TakesCursorFallback(nc) == FalsyNumber(nc.matchIndex) \/ IsNullish(nc.matchLength)

\* insertRelativeToImage: the document the editor holds afterwards
InsertRelativeToImage(position, doc, sel, nc, content) ==
    IF TakesCursorFallback(nc)
    THEN ReplaceSelection(doc, sel, FormatContent(content))
    ELSE LET insertAt == IF position = "above"
                         THEN nc.matchIndex
                         ELSE nc.matchIndex + nc.matchLength
         IN  Slice(doc, 0, insertAt) \o <<"\n", "\n">> \o FormatContent(content)
                 \o <<"\n", "\n">> \o Slice(doc, insertAt, Len(doc))

\* replace(/\n/g, '\n> ')
RECURSIVE QuoteLines(_)
QuoteLines(str) ==
    IF str = <<>> THEN <<>>
    ELSE IF Head(str) = "\n" THEN <<"\n", ">", " ">> \o QuoteLines(Tail(str))
    ELSE <<Head(str)>> \o QuoteLines(Tail(str))

\* the callout of an 'extract-facts' result: getCalloutType gives 'info' and
\* getActionTitle 'Key Facts', each kept as one piece
Callout(content) ==
    <<">", " ", "[", "!", "info", "]", " ", "Key Facts", "\n", ">", " ">>
        \o QuoteLines(FormatContent(content))

\* replaceImageWithCallout: the document the editor holds afterwards
ReplaceImageWithCallout(doc, sel, nc, content) ==
    IF TakesCursorFallback(nc)
    THEN ReplaceSelection(doc, sel, FormatContent(content))
    ELSE LET start == nc.matchIndex
             end == start + nc.matchLength
         IN  Slice(doc, 0, start) \o Callout(content) \o <<"\n">>
                 \o Slice(doc, end, Len(doc))

\* the embed of the image, and the notes that hold it at offset 0, at offset 2
\* and not at all
Embed == <<"!", "[", "[", "a", "]", "]">>
NoSpan == [matchIndex |-> Undefined, matchLength |-> Undefined]
Span(i) == [matchIndex |-> i, matchLength |-> Len(Embed)]
InsertNotes ==
    {[doc |-> Embed \o <<"\n", "t">>, nc |-> Span(0)],
     [doc |-> <<"s", "\n">> \o Embed \o <<"\n", "t">>, nc |-> Span(2)],
     [doc |-> <<"s", "\n", "t">>, nc |-> NoSpan]}

\* the selections of the editor: a cursor or a range
Selections(doc) ==
    {[from |-> f, to |-> t] : f \in {0, 1, Len(doc)}, t \in {0, 1, Len(doc)}}
        \cap {sel \in [from : 0..Len(doc), to : 0..Len(doc)] : sel.from <= sel.to}

\* the contents of a result
Contents == {<<"x">>, <<"x", "y">>, <<" ", "x", "\n", "y", " ">>}

InsertButtons == {"above", "below", "replace"}

NoInsertCall == [called |-> FALSE]

\* a click on 'Insert Above Image', 'Insert Below Image' or 'Replace Image
\* with Callout'
InsertCall(button, note, sel, content) ==
    /\ insertCall' =
          [called |-> TRUE, button |-> button, doc |-> note.doc, nc |-> note.nc,
           sel |-> sel, content |-> content,
           out |-> IF button = "replace"
                   THEN ReplaceImageWithCallout(note.doc, sel, note.nc, content)
                   ELSE InsertRelativeToImage(button, note.doc, sel, note.nc, content)]
    /\ UNCHANGED <<keyCall, prevKeyCall, hashCall, sectionCall, linksCall, contextCall,
                   prompt>>

(* ---------------------------- specifications -------------------------- *)

Init ==
    /\ now = TickMs
    /\ blob \in InitBlobs
    /\ settings = LoadSettings(blob)
    /\ cache = <<>>
    /\ accessOrder = <<>>
    /\ loaded = FALSE
    /\ saves = EmptyBag
    /\ last = Step("init", NoKey)
    /\ puts = EmptyLog
    /\ lastRequestTime = 0
    /\ requests = [i \in Requests |-> Idle]
    /\ keyCall = NoKeyCall
    /\ prevKeyCall = NoKeyCall
    /\ hashCall = NoHashCall
    /\ rerunBy = [i \in Requests |-> NoModal]
    /\ sectionCall = NoSectionCall
    /\ linksCall = NoLinksCall
    /\ contextCall = NoContextCall
    /\ prompt = NoHandler
    /\ insertCall = NoInsertCall

\* no save awaits the blob store
Quiet == Pending = 0

\* The store and the settings tab, called one operation at a time: the blob
\* store answers each save before the next call, and does not fail.
Next ==
    \/ Quiet /\ (\E k \in TwoKeys : GetCachedResult(k)) /\ UNCHANGED pluginVars
          /\ UNCHANGED pureVars
    \/ Quiet /\ (\E k \in TwoKeys, r \in Results : CacheResult(k, r)) /\ UNCHANGED pluginVars
          /\ UNCHANGED pureVars
    \/ Quiet /\ (\E k \in TwoKeys : Invalidate(k)) /\ UNCHANGED pluginVars /\ UNCHANGED pureVars
    \/ Quiet /\ ClearCache /\ UNCHANGED pluginVars /\ UNCHANGED pureVars
    \/ Quiet /\ GetCacheStats /\ UNCHANGED pluginVars /\ UNCHANGED pureVars
    \/ Quiet /\ LoadCache /\ UNCHANGED pluginVars /\ UNCHANGED pureVars
    \/ Quiet /\ LoadCacheThrows /\ UNCHANGED pluginVars /\ UNCHANGED pureVars
    \/ SaveCacheWrite /\ UNCHANGED pluginVars /\ UNCHANGED pureVars
    \/ SaveDataDone /\ UNCHANGED pluginVars /\ UNCHANGED pureVars
    \/ Quiet /\ SetCacheResults /\ UNCHANGED pluginVars /\ UNCHANGED pureVars
    \/ Quiet /\ SetMaxCacheAge /\ UNCHANGED pluginVars /\ UNCHANGED pureVars
    \/ Quiet /\ SetMaxCacheEntries /\ UNCHANGED pluginVars /\ UNCHANGED pureVars
    \/ Quiet /\ Tick /\ UNCHANGED pluginVars /\ UNCHANGED pureVars

Spec == Init /\ [][Next]_vars

\* The eviction order: three keys, one result, the bound as the only setting
\* that changes.
LruNext ==
    \/ Quiet /\ (\E k \in Keys : GetCachedResult(k)) /\ UNCHANGED pluginVars /\ UNCHANGED pureVars
    \/ Quiet /\ (\E k \in Keys : CacheResult(k, "r1")) /\ UNCHANGED pluginVars /\ UNCHANGED pureVars
    \/ Quiet /\ (\E k \in Keys : Invalidate(k)) /\ UNCHANGED pluginVars /\ UNCHANGED pureVars
    \/ Quiet /\ ClearCache /\ UNCHANGED pluginVars /\ UNCHANGED pureVars
    \/ Quiet /\ LoadCache /\ UNCHANGED pluginVars /\ UNCHANGED pureVars
    \/ SaveCacheWrite /\ UNCHANGED pluginVars /\ UNCHANGED pureVars
    \/ SaveDataDone /\ UNCHANGED pluginVars /\ UNCHANGED pureVars
    \/ Quiet /\ SetMaxCacheEntries /\ UNCHANGED pluginVars /\ UNCHANGED pureVars
    \/ Quiet /\ Tick /\ UNCHANGED pluginVars /\ UNCHANGED pureVars

LruSpec == Init /\ [][LruNext]_vars

\* Calls while a save awaits the blob store, which may fail.
FaultNext ==
    \/ (\E k \in OneKey : GetCachedResult(k)) /\ Pending' <= MaxPending /\ UNCHANGED pluginVars
          /\ UNCHANGED pureVars
    \/ (\E k \in OneKey, r \in Results : CacheResult(k, r)) /\ Pending' <= MaxPending
          /\ UNCHANGED pluginVars /\ UNCHANGED pureVars
    \/ (\E k \in OneKey : Invalidate(k)) /\ Pending' <= MaxPending /\ UNCHANGED pluginVars
          /\ UNCHANGED pureVars
    \/ ClearCache /\ Pending' <= MaxPending /\ UNCHANGED pluginVars /\ UNCHANGED pureVars
    \/ GetCacheStats /\ UNCHANGED pluginVars /\ UNCHANGED pureVars
    \/ LoadCache /\ UNCHANGED pluginVars /\ UNCHANGED pureVars
    \/ LoadCacheThrows /\ UNCHANGED pluginVars /\ UNCHANGED pureVars
    \/ SaveCacheWrite /\ UNCHANGED pluginVars /\ UNCHANGED pureVars
    \/ SaveDataDone /\ UNCHANGED pluginVars /\ UNCHANGED pureVars
    \/ SaveCacheThrows /\ UNCHANGED pluginVars /\ UNCHANGED pureVars
    \/ Tick /\ UNCHANGED pluginVars /\ UNCHANGED pureVars

FaultSpec == Init /\ [][FaultNext]_vars

\* The requests of the plugin on the store.
PluginNext ==
    \/ \E i \in Requests, k \in OneKey : ExecuteVisionAction(i, k) /\ Pending' <= MaxPending
          /\ UNCHANGED rerunBy /\ UNCHANGED pureVars
    \/ \E i \in Requests : TimerFires(i) /\ Pending' <= MaxPending
          /\ UNCHANGED rerunBy /\ UNCHANGED pureVars
    \/ \E i \in Requests : PrepareDone(i) /\ UNCHANGED rerunBy /\ UNCHANGED pureVars
    \/ \E i \in Requests, r \in Results : AnalyzeDone(i, r) /\ Pending' <= MaxPending
          /\ UNCHANGED rerunBy /\ UNCHANGED pureVars
    \/ \E i \in Requests : RequestFails(i) /\ UNCHANGED rerunBy /\ UNCHANGED pureVars
    \/ \E i \in Requests : Dismiss(i) /\ UNCHANGED rerunBy /\ UNCHANGED pureVars
    \/ Wait /\ UNCHANGED rerunBy /\ UNCHANGED pureVars
    \/ LoadCache /\ UNCHANGED pluginVars /\ UNCHANGED pureVars
    \/ SaveCacheWrite /\ UNCHANGED pluginVars /\ UNCHANGED pureVars
    \/ SaveDataDone /\ UNCHANGED pluginVars /\ UNCHANGED pureVars

PluginSpec == Init /\ [][PluginNext]_vars

\* The requests with the Re-run button of the results modal. The handler's
\* this.close() follows the awaited call at once, so nothing else runs while
\* a return is pending; a modal whose Re-run is awaited is not dismissed.
NoReturnPending == \A j \in Requests : ~ReturnPending(j)
Awaited(i) == \E j \in Requests : rerunBy[j] = i

RerunNext ==
    \/ NoReturnPending /\ (\E i \in Requests, k \in OneKey : ExecuteVisionAction(i, k))
          /\ Pending' <= MaxPending /\ UNCHANGED rerunBy /\ UNCHANGED pureVars
    \/ NoReturnPending /\ (\E i, j \in Requests : Rerun(i, j))
          /\ Pending' <= MaxPending /\ UNCHANGED pureVars
    \/ \E j \in Requests : RerunReturns(j) /\ UNCHANGED pureVars
    \/ NoReturnPending /\ (\E i \in Requests : TimerFires(i)) /\ Pending' <= MaxPending
          /\ UNCHANGED rerunBy /\ UNCHANGED pureVars
    \/ NoReturnPending /\ (\E i \in Requests : PrepareDone(i))
          /\ UNCHANGED rerunBy /\ UNCHANGED pureVars
    \/ NoReturnPending /\ (\E i \in Requests, r \in Results : AnalyzeDone(i, r))
          /\ Pending' <= MaxPending /\ UNCHANGED rerunBy /\ UNCHANGED pureVars
    \/ NoReturnPending /\ (\E i \in Requests : RequestFails(i))
          /\ UNCHANGED rerunBy /\ UNCHANGED pureVars
    \/ NoReturnPending /\ (\E i \in Requests : ~Awaited(i) /\ Dismiss(i))
          /\ UNCHANGED rerunBy /\ UNCHANGED pureVars
    \/ NoReturnPending /\ Wait /\ UNCHANGED rerunBy /\ UNCHANGED pureVars
    \/ NoReturnPending /\ LoadCache /\ UNCHANGED pluginVars /\ UNCHANGED pureVars
    \/ NoReturnPending /\ SaveCacheWrite /\ UNCHANGED pluginVars /\ UNCHANGED pureVars
    \/ NoReturnPending /\ SaveDataDone /\ UNCHANGED pluginVars /\ UNCHANGED pureVars

RerunSpec == Init /\ [][RerunNext]_vars

\* The store filled by puts of new keys, one operation at a time, up to one
\* entry more than the settings tab shows by default, with the bound left
\* alone, or typed as 0 or as 2 while the store is small; the constructor's
\* load completes while the persisted map is small.
FillPut == CacheResult(FillKey(Len(cache) + 1), "r1")

BoundNext ==
    \/ Quiet /\ Len(cache) <= DisplayedDefault /\ FillPut
          /\ UNCHANGED pluginVars /\ UNCHANGED pureVars
    \/ Quiet /\ Len(blob.cache) <= 2 /\ LoadCache /\ UNCHANGED pluginVars /\ UNCHANGED pureVars
    \/ SaveCacheWrite /\ UNCHANGED pluginVars /\ UNCHANGED pureVars
    \/ SaveDataDone /\ UNCHANGED pluginVars /\ UNCHANGED pureVars
    \/ Quiet /\ Len(cache) <= 2 /\ (\E n \in {0, 2} : TypeMaxCacheEntries(n))
          /\ UNCHANGED pluginVars /\ UNCHANGED pureVars

BoundSpec == Init /\ [][BoundNext]_vars

\* at most MaxOverlap saves await the blob store at once when saves overlap
MaxOverlap == 2

\* Overlapping saves: the store is called, after its load, while earlier saves
\* still await the blob store, which completes them in any order.
RaceNext ==
    \/ loaded /\ (\E k \in OneKey : GetCachedResult(k)) /\ Pending' <= MaxOverlap
          /\ UNCHANGED pluginVars /\ UNCHANGED pureVars
    \/ loaded /\ (\E k \in OneKey, r \in Results : CacheResult(k, r)) /\ Pending' <= MaxOverlap
          /\ UNCHANGED pluginVars /\ UNCHANGED pureVars
    \/ loaded /\ (\E k \in OneKey : Invalidate(k)) /\ Pending' <= MaxOverlap
          /\ UNCHANGED pluginVars /\ UNCHANGED pureVars
    \/ loaded /\ ClearCache /\ Pending' <= MaxOverlap /\ UNCHANGED pluginVars /\ UNCHANGED pureVars
    \/ LoadCache /\ UNCHANGED pluginVars /\ UNCHANGED pureVars
    \/ SaveCacheWrite /\ UNCHANGED pluginVars /\ UNCHANGED pureVars
    \/ SaveDataDone /\ UNCHANGED pluginVars /\ UNCHANGED pureVars
    \/ Tick /\ UNCHANGED pluginVars /\ UNCHANGED pureVars

RaceSpec == Init /\ [][RaceNext]_vars

\* The fingerprint and the hash, called between the store's operations.
FingerprintNext ==
    \/ (\E inp \in KeyInputs : GenerateCacheKeyCall(inp)) /\ UNCHANGED <<storeVars, pluginVars>>
    \/ LoadCache /\ UNCHANGED <<pluginVars, pureVars>>
    \/ Quiet /\ SetCacheResults /\ UNCHANGED <<pluginVars, pureVars>>
    \/ SaveDataDone /\ UNCHANGED <<pluginVars, pureVars>>
    \/ Quiet /\ Tick /\ UNCHANGED <<pluginVars, pureVars>>

FingerprintSpec == Init /\ [][FingerprintNext]_vars

\* The hash, called between the store's operations.
HashNext ==
    \/ (\E str \in HashInputs : HashStringCall(str)) /\ UNCHANGED <<storeVars, pluginVars>>
    \/ Quiet /\ CacheResult("a", "r1") /\ UNCHANGED <<pluginVars, pureVars>>
    \/ SaveCacheWrite /\ UNCHANGED <<pluginVars, pureVars>>
    \/ SaveDataDone /\ UNCHANGED <<pluginVars, pureVars>>
    \/ Quiet /\ Tick /\ UNCHANGED <<pluginVars, pureVars>>

HashSpec == Init /\ [][HashNext]_vars

\* The section of an image, extracted for documents and offsets in any order.
SectionNext ==
    \/ (\E allText \in Documents :
           \E a \in AnchorIndexes(allText) : ExtractSectionDataCall(allText, a))
          /\ UNCHANGED <<storeVars, pluginVars>>

SectionSpec == Init /\ [][SectionNext]_vars

\* extractRelatedWikiLinks alone: calls with a document, the span of the image
\* in it and the vault
LinksNext ==
    \/ (\E c \in LinkCalls : ExtractRelatedWikiLinksCall(c))
          /\ UNCHANGED <<storeVars, pluginVars>>
LinksSpec == Init /\ [][LinksNext]_vars

\* extractNoteContext alone: calls with a note, the image and the note's cache
ContextNext ==
    \/ (\E allText \in Notes : ExtractNoteContextCall(allText))
          /\ UNCHANGED <<storeVars, pluginVars>>
ContextSpec == Init /\ [][ContextNext]_vars


\* The prompt modal with the two handlers that open it, one at a time, and
\* the requests and the bulk loop that follow; analyzeImage returns one result.
PromptNext ==
    \/ OpenMenuPrompt /\ UNCHANGED <<rerunBy, callVars>>
    \/ AnalyzeAllImagesInNote /\ UNCHANGED <<rerunBy, callVars>>
    \/ TypeText /\ UNCHANGED <<rerunBy, callVars>>
    \/ ClickRun /\ Pending' <= MaxPending /\ UNCHANGED <<rerunBy, callVars>>
    \/ ClickCancel /\ Pending' <= MaxPending /\ UNCHANGED <<rerunBy, callVars>>
    \/ DismissPrompt /\ UNCHANGED <<rerunBy, callVars>>
    \/ TimerFires(1) /\ Pending' <= MaxPending /\ UNCHANGED <<rerunBy, pureVars>>
    \/ MenuPrepareDone /\ UNCHANGED <<rerunBy, callVars>>
    \/ AnalyzeDone(1, "r1") /\ Pending' <= MaxPending /\ UNCHANGED <<rerunBy, pureVars>>
    \/ RequestFails(1) /\ UNCHANGED <<rerunBy, pureVars>>
    \/ Dismiss(1) /\ UNCHANGED <<rerunBy, pureVars>>
    \/ BulkTimerFires /\ UNCHANGED <<rerunBy, callVars>>
    \/ BulkPrepareDone /\ Pending' <= MaxPending /\ UNCHANGED <<rerunBy, callVars>>
    \/ BulkAnalyzeDone("r1") /\ Pending' <= MaxPending /\ UNCHANGED <<rerunBy, callVars>>
    \/ BulkConsolidateDone /\ UNCHANGED <<rerunBy, callVars>>
    \/ BulkFails /\ UNCHANGED <<rerunBy, callVars>>
    \/ Wait /\ UNCHANGED <<rerunBy, pureVars>>
    \/ LoadCache /\ UNCHANGED <<pluginVars, pureVars>>
    \/ SaveCacheWrite /\ UNCHANGED <<pluginVars, pureVars>>
    \/ SaveDataDone /\ UNCHANGED <<pluginVars, pureVars>>

PromptSpec == Init /\ [][PromptNext]_vars

\* the user leaves an open prompt, by a button or by dismissing it
LeavePrompt ==
    (ClickRun \/ ClickCancel \/ DismissPrompt) /\ UNCHANGED <<rerunBy, callVars>>

\* The same, where an open prompt is left sooner or later.
PromptLiveSpec == Init /\ [][PromptNext]_vars /\ WF_vars(LeavePrompt)

\* The insert buttons of the results modal alone.
InsertNext ==
    \/ (\E button \in InsertButtons, note \in InsertNotes, content \in Contents :
           \E sel \in Selections(note.doc) : InsertCall(button, note, sel, content))
          /\ UNCHANGED <<storeVars, pluginVars>>
InsertSpec == Init /\ [][InsertNext]_vars

(* ------------------------------- claims ------------------------------- *)

\* the bound a put enforces, when one is configured
Bounded == settings.cacheResults /\ settings.maxCacheEntries >= 1

\* C1: immediately after a put made with caching enabled and a configured bound
\* N >= 1 the map holds at most N entries, whatever was called before (the
\* bound may have been lowered since the put before).
C1_BoundAfterPut ==
    (last.op = "put" /\ Bounded) => Len(cache) <= settings.maxCacheEntries

\* a put under bound 1 has just evicted two entries
C1_Witness ==
    /\ last.op = "put" /\ Bounded
    /\ settings.maxCacheEntries = 1
    /\ last.removed = 2
    /\ KeysOf(cache) = {last.key}

\* no key occurs twice
Distinct(seq) == \A i, j \in 1..Len(seq) : seq[i] = seq[j] => i = j

\* the last min(Len(seq), n) elements
LastN(seq, n) == {seq[i] : i \in {j \in 1..Len(seq) : j > Len(seq) - n}}

\* C2: on a store that was empty, after puts of m distinct keys and nothing
\* else, under a bound N >= 1, the resident keys are the last min(m, N) keys put.
C2_LastKeysResident ==
    (puts.on /\ puts.keys # <<>> /\ Distinct(puts.keys) /\ Bounded)
        => KeysOf(cache) = LastN(puts.keys, settings.maxCacheEntries)

\* put(a), put(b), put(c) under bound 2 has left b and c
C2_Witness ==
    /\ puts.on /\ puts.keys = <<"a", "b", "c">>
    /\ Bounded /\ settings.maxCacheEntries = 2
    /\ KeysOf(cache) = {"b", "c"}

\* the n keys put most recently, each counted at its latest put
RECURSIVE RecentKeys(_, _)
RecentKeys(seq, n) ==
    IF seq = <<>> \/ n = 0 THEN {}
    ELSE LET k == seq[Len(seq)]
         IN {k} \cup RecentKeys(SelectSeq(SubSeq(seq, 1, Len(seq) - 1), LAMBDA x : x # k),
                                 n - 1)

\* C3: a put makes its key the most recently used one, also when the key was
\* resident; after any run of puts on a store that was empty the resident keys
\* are the N keys whose latest put is most recent, so the key evicted is the
\* one whose latest put is oldest.
C3_RecencyNotInsertion ==
    /\ (last.op = "put" /\ settings.cacheResults)
          => (accessOrder # <<>> /\ accessOrder[Len(accessOrder)] = last.key)
    /\ (puts.on /\ puts.keys # <<>> /\ Bounded)
          => KeysOf(cache) = RecentKeys(puts.keys, settings.maxCacheEntries)

\* put(a), put(b), put(a), put(c) under bound 2 has evicted b and left a and c
C3_Witness ==
    /\ puts.on /\ puts.keys = <<"a", "b", "a", "c">>
    /\ Bounded /\ settings.maxCacheEntries = 2
    /\ KeysOf(cache) = {"a", "c"}

\* what a get of k returns, now and after the step
GetNow(k) == GetCachedResultValue(cache, settings, k, now)
GetNext(k) == GetCachedResultValue(cache', settings', k, now')

\* what stats() returns, now and after the step
StatsNow == GetCacheStatsValue(cache, settings, now)
StatsNext == GetCacheStatsValue(cache', settings', now')

C6_StatsReadOnly ==
    /\ [](/\ StatsNow.validEntries + StatsNow.expiredEntries = StatsNow.totalEntries
          /\ StatsNow.totalEntries = Cardinality(KeysOf(cache))
          /\ StatsNow.expiredEntries =
                Cardinality({k \in KeysOf(cache) :
                    now - EntryOf(cache, k).timestamp > settings.maxCacheAge * MsPerHour}))
    /\ [][GetCacheStats =>
            (cache' = cache /\ accessOrder' = accessOrder /\ blob' = blob /\ saves' = saves)]_vars

\* stats() has counted an expired entry next to a valid one, both still resident
C6_Witness ==
    /\ last.op = "stats"
    /\ StatsNow.expiredEntries = 1 /\ StatsNow.validEntries = 1
    /\ Len(cache) = 2

\* C7: after clear() stats() is all zero and every get returns null; a clear()
\* that follows a clear() leaves the map and the recency order as they were.
C7_ClearIdempotent ==
    /\ [](last.op = "clear" =>
            /\ StatsNow = [validEntries |-> 0, expiredEntries |-> 0, totalEntries |-> 0]
            /\ \A k \in Keys : GetNow(k) = Null)
    /\ [][(last.op = "clear" /\ ClearCache) =>
            (cache' = cache /\ accessOrder' = accessOrder)]_vars

\* clear() has emptied a map of two entries
C7_Witness ==
    /\ last.op = "clear" /\ last.removed = 2
    /\ cache = <<>>
    /\ settings.cacheResults

\* C8: invalidate of a resident key removes that entry and no other; invalidate
\* of an absent key changes neither the map nor the recency order and starts
\* no save.
C8_InvalidateExact ==
    [][\A k \in Keys :
        Invalidate(k) =>
            IF Has(cache, k)
            THEN /\ KeysOf(cache') = KeysOf(cache) \ {k}
                 /\ GetNext(k) = Null
                 /\ \A k2 \in KeysOf(cache') : EntryOf(cache', k2) = EntryOf(cache, k2)
            ELSE /\ cache' = cache /\ accessOrder' = accessOrder
                 /\ saves' = saves /\ blob' = blob]_vars

\* invalidate was called for a key that is not in the map, which holds another
C8_Witness ==
    /\ last.op = "invalidate" /\ last.removed = 0
    /\ ~Has(cache, last.key)
    /\ cache # <<>>
    /\ Pending = 0

\* C9: when the blob store throws inside a save, the map and the recency order
\* stay as the operation left them, gets and stats() answer as before, and
\* what the operation returned to its caller stands.
C9_NoRollback ==
    [][SaveCacheThrows =>
        /\ cache' = cache /\ accessOrder' = accessOrder
        /\ \A k \in Keys : GetNext(k) = GetNow(k)
        /\ StatsNext = StatsNow
        /\ last'.op = last.op /\ last'.value = last.value]_vars

\* the save of a clear() has failed: the map is empty, the blob still holds
\* the entries
C9_Witness ==
    /\ last.op = "clear" /\ last.failed /\ last.removed >= 1
    /\ Pending = 0
    /\ cache = <<>>
    /\ blob.hasCache /\ blob.cache # <<>>

\* C10: at any time at most one request is in flight; a request started while
\* another is in flight does not pass enforceRateLimit before that one is done.
C10_OneInFlight == Cardinality({i \in Requests : InFlight(i)}) <= 1

\* C11: a request passes enforceRateLimit no sooner than rateLimitDelay after
\* the request that passed before it, also when both were waiting in it.
C11_PassesApart ==
    [][\A i \in Requests, k \in Keys :
        PassRateLimit(i, k) => now - lastRequestTime >= RateLimitDelay]_vars

\* the cache field of the persisted data, as a map
BlobMap == IF blob.hasCache THEN blob.cache ELSE <<>>

\* the same keys with the same entries
SameMap(c1, c2) ==
    /\ KeysOf(c1) = KeysOf(c2)
    /\ \A k \in KeysOf(c1) : EntryOf(c1, k) = EntryOf(c2, k)

\* C12: when the load is done and no save awaits the blob store (none has
\* failed), the persisted cache map equals the map in memory, in whatever
\* order overlapping saves completed.
C12_BlobEqualsMap == (loaded /\ Pending = 0) => SameMap(BlobMap, cache)

\* the timestamps along a recency order do not decrease
Ascending(ord, c) ==
    \A i, j \in 1..Len(ord) :
        i < j => EntryOf(c, ord[i]).timestamp <= EntryOf(c, ord[j]).timestamp

\* C13: a load that finds a persisted map makes it the map in memory and makes
\* the recency order its keys, each once, by ascending timestamp; a put that
\* exceeds the bound evicts only entries no younger than every entry it
\* leaves, and when it is the first call after the load it evicts the loaded
\* entry with the smallest timestamp.
C13_LoadOrdersByTimestamp ==
    [][/\ (LoadCache /\ blob.hasCache) =>
            /\ cache' = blob.cache
            /\ Len(accessOrder') = Len(cache')
            /\ {accessOrder'[i] : i \in 1..Len(accessOrder')} = KeysOf(cache')
            /\ Ascending(accessOrder', cache')
       /\ \A k \in Keys, r \in Results :
            (CacheResult(k, r) /\ Bounded) =>
                /\ \A e \in KeysOf(cache) \ KeysOf(cache'), k2 \in KeysOf(cache') \ {k} :
                      EntryOf(cache, e).timestamp <= EntryOf(cache, k2).timestamp
                /\ (last.op = "load" /\ Len(MapSet(cache, k, Entry(k, r, now)))
                                           > settings.maxCacheEntries)
                      => \E e \in KeysOf(cache) \ KeysOf(cache') :
                            \A k2 \in KeysOf(cache) \ {k} :
                                EntryOf(cache, e).timestamp <= EntryOf(cache, k2).timestamp]_vars

\* the map was loaded with a and b, b the younger, and the put of c under
\* bound 2 has evicted a
C13_Witness ==
    /\ last.op = "put" /\ last.key = "c" /\ last.removed = 1
    /\ Bounded /\ settings.maxCacheEntries = 2
    /\ KeysOf(cache) = {"b", "c"}
    /\ EntryOf(cache, "b") = Entry("b", "r2", TickMs)
    /\ accessOrder = <<"b", "c">>

\* request i enters image preparation, the step that leads to analyzeImage
StartsAnalysis(i) ==
    /\ requests[i].pc \notin {"preparing", "analyzing"}
    /\ requests'[i].pc \in {"preparing", "analyzing"}

\* C14: a request goes on to the analysis only in the step in which the cache
\* get for its key returned null, and a get that returns a result finishes the
\* request at once; analyzeImage is called only from image preparation of the
\* same request; a put is the put of a request whose analysis has just
\* resolved, under that request's key; a failed preparation or analysis
\* leaves the map, the recency order and the persisted blob alone.
C14_AnalysisAfterMissPutAfterAnalysis ==
    [][/\ \A i \in Requests :
            /\ StartsAnalysis(i) =>
                  /\ requests'[i].pc = "preparing"
                  /\ last'.op = "get" /\ last'.key = requests'[i].key
                  /\ last'.value = Null
            /\ (requests[i].pc \in {"idle", "waiting"}
                  /\ requests'[i].pc \notin {"idle", "waiting"}
                  /\ last'.value # Null) =>
                  /\ last'.op = "get" /\ last'.key = requests'[i].key
                  /\ requests'[i].pc = "done"
                  /\ last'.value = EntryOf(cache, requests'[i].key).result
            /\ (requests[i].pc # "analyzing" /\ requests'[i].pc = "analyzing") =>
                  /\ requests[i].pc = "preparing"
                  /\ requests'[i].key = requests[i].key
            /\ RequestFails(i) => UNCHANGED <<cache, accessOrder, blob, saves, puts>>
       /\ \A k \in Keys, r \in Results :
            CacheResult(k, r) =>
                \E i \in Requests : /\ requests[i].pc = "analyzing"
                                    /\ requests[i].key = k
                                    /\ requests'[i].pc = "done"]_vars

\* request 1 missed, was analysed and cached; request 2 then got the cached
\* result and is done without an analysis
C14_Witness ==
    /\ requests[1].pc = "done" /\ requests[2].pc = "done"
    /\ ~loaded /\ Has(cache, "a")
    /\ last.op = "get" /\ last.key = "a" /\ last.value = EntryOf(cache, "a").result

KeyFields(inp) ==
    <<inp.imageInfo.path, inp.imageInfo.filename, inp.imageInfo.mimeType, <<inp.action>>,
      inp.noteContext.noteName, inp.noteContext.textBefore, inp.noteContext.textAfter,
      IF inp.action = CustomVision THEN inp.customPrompt.text ELSE <<>> >>

\* the two argument tuples differ in exactly one of these fields, and in
\* nothing else
DiffersInOne(in1, in2) ==
    /\ Cardinality({f \in 1..8 : KeyFields(in1)[f] # KeyFields(in2)[f]}) = 1
    /\ in1.noteContext.given = in2.noteContext.given
    /\ in1.noteContext.matchIndex = in2.noteContext.matchIndex
    /\ in1.customPrompt.given = in2.customPrompt.given

\* C16: two calls of generateCacheKey whose arguments differ in exactly one of
\* path, filename, mimeType, action, noteName, textBefore, textAfter and (for
\* the custom action) the instruction return different keys.
C16_Sensitive ==
    (keyCall.called /\ prevKeyCall.called /\ DiffersInOne(prevKeyCall.in, keyCall.in))
        => keyCall.key # prevKeyCall.key

\* the hashes the key is made of, for each of the arguments
ImageHashOf == [img \in Images |-> HashImageInfo(img)]
ContextHashOf == [nc \in NoteContexts |-> HashNoteContext(nc)]
PromptHashOf == [pr \in Prompts |-> HashString(Substring(pr.text, PromptChars))]

IsDigits(str) == Len(str) > 0 /\ \A i \in 1..Len(str) : \E d \in 1..10 : str[i] = DigitChars[d]
Count(b) == IF b THEN 1 ELSE 0
HasContextPart(inp) == inp.noteContext.given
HasPromptPart(inp) ==
    inp.action = CustomVision /\ inp.customPrompt.given /\ inp.customPrompt.text # <<>>

\* C17: the key of a call is imageHash "-" action, then "-" contextHash exactly
\* when a note context was passed, then "-" promptHash exactly when the
\* action is the custom one and a non-empty instruction was passed; each hash
\* is a run of decimal digits; and two calls for an action other than the
\* custom one that differ in the instruction only return the same key.
C17_KeyShape ==
    /\ keyCall.called =>
          LET inp == keyCall.in
              key == keyCall.key
          IN  /\ key = ImageHashOf[inp.imageInfo] \o <<"-", inp.action>>
                         \o (IF HasContextPart(inp)
                             THEN <<"-">> \o ContextHashOf[inp.noteContext] ELSE <<>>)
                         \o (IF HasPromptPart(inp)
                             THEN <<"-">> \o PromptHashOf[inp.customPrompt] ELSE <<>>)
              /\ Cardinality({i \in 1..Len(key) : key[i] = "-"})
                    = 1 + Count(HasContextPart(inp)) + Count(HasPromptPart(inp))
              /\ IsDigits(ImageHashOf[inp.imageInfo])
              /\ IsDigits(ContextHashOf[inp.noteContext])
              /\ IsDigits(PromptHashOf[inp.customPrompt])
    /\ (keyCall.called /\ prevKeyCall.called
          /\ keyCall.in.action # CustomVision
          /\ [keyCall.in EXCEPT !.customPrompt = NoPrompt]
               = [prevKeyCall.in EXCEPT !.customPrompt = NoPrompt])
          => keyCall.key = prevKeyCall.key

\* two calls for another action than the custom one, with a note context and
\* with different instructions, one of them non-empty: the same key, of three
\* parts
C17_Witness ==
    /\ keyCall.called /\ prevKeyCall.called
    /\ keyCall.in.action = "smart-summary" /\ prevKeyCall.in.action = "smart-summary"
    /\ HasContextPart(keyCall.in) /\ HasContextPart(prevKeyCall.in)
    /\ keyCall.in.customPrompt = BasePrompt
    /\ prevKeyCall.in.customPrompt = NoPrompt
    /\ keyCall.key = prevKeyCall.key
    /\ Cardinality({i \in 1..Len(keyCall.key) : keyCall.key[i] = "-"}) = 2

\* two strings have the same first n characters
AgreeOn(s1, s2, n) ==
    \A i \in 1..n :
        /\ (i <= Len(s1)) <=> (i <= Len(s2))
        /\ (i <= Len(s1)) => s1[i] = s2[i]

\* the two note contexts have the same noteName and agree on the first 200
\* characters of textBefore and of textAfter
SameContextPrefix(c1, c2) ==
    /\ c1.given /\ c2.given
    /\ c1.noteName = c2.noteName
    /\ AgreeOn(c1.textBefore, c2.textBefore, 200)
    /\ AgreeOn(c1.textAfter, c2.textAfter, 200)

\* C18: two calls with the same image, action and instruction whose note
\* contexts have the same noteName and agree on the first 200 characters of
\* textBefore and of textAfter return the same key, whatever else the
\* contexts hold; two calls that differ only in instructions which agree on
\* their first 500 characters return the same key.
C18_OnlyPrefixesCount ==
    (keyCall.called /\ prevKeyCall.called
       /\ keyCall.in.imageInfo = prevKeyCall.in.imageInfo
       /\ keyCall.in.action = prevKeyCall.in.action) =>
        /\ (/\ keyCall.in.customPrompt = prevKeyCall.in.customPrompt
            /\ SameContextPrefix(keyCall.in.noteContext, prevKeyCall.in.noteContext))
              => keyCall.key = prevKeyCall.key
        /\ (/\ keyCall.in.noteContext = prevKeyCall.in.noteContext
            /\ keyCall.in.customPrompt.given /\ prevKeyCall.in.customPrompt.given
            /\ AgreeOn(keyCall.in.customPrompt.text, prevKeyCall.in.customPrompt.text, 500))
              => keyCall.key = prevKeyCall.key

\* the custom action twice, with texts before the image that differ in their
\* 201st character
C18_Witness ==
    /\ keyCall.called /\ prevKeyCall.called
    /\ keyCall.in = KeyInput(BaseImage, CustomVision, BaseContext, BasePrompt)
    /\ prevKeyCall.in.noteContext = [BaseContext EXCEPT !.textBefore = LongContext(121)]
    /\ keyCall.in.noteContext.textBefore[201] # prevKeyCall.in.noteContext.textBefore[201]
    /\ keyCall.key = prevKeyCall.key

\* the fold h := 31 * h + c over str[from..to] from h, to 32 bits
Times31Plus(h, c) ==
    LET lo == 31 * h.lo + c
    IN  [hi |-> (31 * h.hi + lo \div Half) % Half, lo |-> lo % Half]
RECURSIVE Fold31(_, _, _, _)
Fold31(str, h, from, to) ==
    IF from > to THEN h
    ELSE IF from = to THEN Times31Plus(h, str[from])
    ELSE LET mid == (from + to) \div 2
             left == Fold31(str, h, from, mid)
         IN  IF left.hi < Half THEN Fold31(str, left, mid + 1, to) ELSE left

\* the number a string of decimal digits denotes, as 16-bit halves
RECURSIVE ParseDecimal(_, _)
ParseDecimal(str, n) ==
    IF n = 0 THEN Zero32
    ELSE LET m == ParseDecimal(str, n - 1)
             d == CHOOSE v \in 0..9 : DigitChars[v + 1] = str[n]
             lo == 10 * m.lo + d
         IN  [hi |-> 10 * m.hi + lo \div Half, lo |-> lo % Half]

\* the magnitude of the signed 32-bit integer with these bits
Magnitude(h) ==
    IF h.hi < Half \div 2 THEN h
    ELSE Sub32([hi |-> Half - 1, lo |-> Half - 1], Sub32(h, [hi |-> 0, lo |-> 1]))

\* C19: the result of hashString is a run of decimal digits that denotes the
\* absolute value of the signed 32-bit fold h := 31 * h + charCode from 0; it
\* denotes a number from 0 to 2^31, and it is "0" for the empty string.
C19_HashIsAbsOfFold ==
    hashCall.called =>
        LET value == ParseDecimal(hashCall.out, Len(hashCall.out))
        IN  /\ IsDigits(hashCall.out)
            /\ Len(hashCall.out) <= 10
            /\ value.hi < Half \div 2 \/ value = [hi |-> Half \div 2, lo |-> 0]
            /\ value = Magnitude(Fold31(hashCall.in, Zero32, 1, Len(hashCall.in)))
            /\ hashCall.in = <<>> => hashCall.out = <<"0">>

\* the string whose fold is -2^31 was hashed: the result is 2147483648
C19_Witness ==
    /\ hashCall.called /\ hashCall.in = StrMin
    /\ hashCall.out = <<"2", "1", "4", "7", "4", "8", "3", "6", "4", "8">>
    /\ now > TickMs

\* the level of the heading that has this title
LevelOf(headings, title) ==
    headings[CHOOSE i \in 1..Len(headings) : headings[i].title = title].level

\* the fold of the specification over the first n headings: those after the
\* anchor are skipped; every entry of the path whose heading has a level >=
\* that of the new heading is removed, then the new heading is added
RECURSIVE ReferencePath(_, _, _)
ReferencePath(headings, anchorIndex, n) ==
    IF n = 0 THEN <<>>
    ELSE LET before == ReferencePath(headings, anchorIndex, n - 1)
             h == headings[n]
         IN  IF h.index > anchorIndex THEN before
             ELSE Append(SelectSeq(before, LAMBDA t : LevelOf(headings, t) < h.level),
                         h.title)

\* C20: the sectionPath of a call is the reference fold over the headings at
\* or before the anchor; the levels of its headings strictly increase; and
\* sectionTitle is its last element (the empty string for an empty path).
C20_SectionPathIsFold ==
    sectionCall.called =>
        LET path == sectionCall.sectionPath
            hs == sectionCall.headings
        IN  /\ path = ReferencePath(hs, sectionCall.anchorIndex, Len(hs))
            /\ \A i \in 1..(Len(path) - 1) : LevelOf(hs, path[i]) < LevelOf(hs, path[i + 1])
            /\ sectionCall.sectionTitle = IF path = <<>> THEN <<>> ELSE path[Len(path)]

\* the heading of the call that is the last one at or before the anchor
HasActiveHeading ==
    \E i \in 1..Len(sectionCall.headings) :
        sectionCall.headings[i].index <= sectionCall.anchorIndex
ActiveHeading ==
    LET hs == sectionCall.headings
        at == {i \in 1..Len(hs) : hs[i].index <= sectionCall.anchorIndex}
    IN  CHOOSE i \in at : \A k \in at : k <= i

IsPrefix(s1, s2) == Len(s1) <= Len(s2) /\ SubSeq(s2, 1, Len(s1)) = s1

\* the offset just after the line of the heading with this number
AfterHeadingLine(i) ==
    LineEnd(sectionCall.allText, sectionCall.headings[i].index) + 1

\* C21: the sectionText of a call with a heading at or before the anchor does
\* not begin with the line of that heading; for the document # A / text /
\* ## B / ![[img.png]] / more and the image's offset, sectionPath is [A, B],
\* sectionTitle is B and sectionText is the text from just after the line
\* ## B to the end of the document.
C21_TextStartsAfterHeading ==
    (sectionCall.called /\ HasActiveHeading) =>
        LET h == sectionCall.headings[ActiveHeading]
            line == Slice(sectionCall.allText, h.index, LineEnd(sectionCall.allText, h.index))
        IN  /\ ~IsPrefix(line, sectionCall.sectionText)
            /\ (sectionCall.allText = ExampleDocument
                  /\ sectionCall.anchorIndex = ExampleAnchor) =>
                  /\ sectionCall.sectionPath = << <<"A">>, <<"B">> >>
                  /\ sectionCall.sectionTitle = <<"B">>
                  /\ sectionCall.sectionText
                       = Slice(ExampleDocument, AfterHeadingLine(ActiveHeading),
                               Len(ExampleDocument))

\* the offset of the first heading after the active one whose level is <= its
\* level, and the end of the document when there is none
ReferenceEnd ==
    LET hs == sectionCall.headings
        closing == {j \in (ActiveHeading + 1)..Len(hs) : hs[j].level <= hs[ActiveHeading].level}
    IN  IF closing = {} THEN Len(sectionCall.allText)
        ELSE hs[CHOOSE j \in closing : \A k \in closing : j <= k].index

\* C22: the sectionText of a call with a heading at or before the anchor is
\* the text (trimmed, cut to 1200 characters) that runs from the active
\* heading, with or without its own line, to the first later heading whose
\* level is <= the active heading's, or to the end of the document when
\* there is none, whatever headings precede the active one.
C22_TextEndsAtNextHeading ==
    (sectionCall.called /\ HasActiveHeading) =>
        \E start \in {sectionCall.headings[ActiveHeading].index,
                      AfterHeadingLine(ActiveHeading)} :
            sectionCall.sectionText
                = Substring(Trim(Slice(sectionCall.allText, start, ReferenceEnd)), 1200)

\* C23: a call with no heading at or before the anchor returns an empty
\* sectionPath, an empty sectionTitle and an empty sectionText.
C23_NoHeadingAllEmpty ==
    (sectionCall.called /\ ~HasActiveHeading) =>
        /\ sectionCall.sectionPath = <<>>
        /\ sectionCall.sectionTitle = <<>>
        /\ sectionCall.sectionText = <<>>

\* the link occurrences of the whole document, in document order
Occurrences == LinkMatchesFrom(linksCall.allText, 0)

\* the whole text of occurrence m lies inside
\* [max(0, matchIndex - 800), min(documentLength, matchIndex + matchLength + 800))
InWindow(m) ==
    /\ m.index >= Larger(0, linksCall.matchIndex - 800)
    /\ m.end <= Smaller(Len(linksCall.allText),
                        linksCall.matchIndex + linksCall.matchLength + 800)

Resolvable(m) == Trim(m.target) \in VaultFiles

Times(seq, x) == Cardinality({i \in DOMAIN seq : seq[i] = x})

\* C24: a resolvable double-bracket link is reported in relatedLinks exactly
\* when its whole text lies inside the window of 800 characters on each side
\* of the match (cut at the ends of the document): a record is reported as
\* many times as it has resolvable occurrences inside the window, so a link
\* that starts 900 characters before the match is left out and one that starts
\* 700 characters before it is reported.
C24_ReportedIffInWindow ==
    linksCall.called =>
        LET occ == Occurrences
        IN  /\ \A i \in DOMAIN occ :
                   Resolvable(occ[i]) =>
                       Times(linksCall.relatedLinks, LinkRecord(occ[i]))
                         = Cardinality({j \in DOMAIN occ :
                                           /\ Resolvable(occ[j])
                                           /\ InWindow(occ[j])
                                           /\ LinkRecord(occ[j]) = LinkRecord(occ[i])})
            /\ \A k \in DOMAIN linksCall.relatedLinks :
                   \E i \in DOMAIN occ :
                       /\ Resolvable(occ[i]) /\ InWindow(occ[i])
                       /\ LinkRecord(occ[i]) = linksCall.relatedLinks[k]

\* a resolvable link 900 characters before the match is left out while the
\* resolvable link that ends with the window is reported
C24_Witness ==
    /\ linksCall.called
    /\ LET occ == Occurrences
       IN  /\ \E i \in DOMAIN occ :
                  /\ occ[i].index = linksCall.matchIndex - 900
                  /\ Resolvable(occ[i])
                  /\ Times(linksCall.relatedLinks, LinkRecord(occ[i])) = 0
           /\ \E i \in DOMAIN occ :
                  /\ occ[i].end = linksCall.matchIndex + linksCall.matchLength + 800
                  /\ Resolvable(occ[i])
                  /\ Times(linksCall.relatedLinks, LinkRecord(occ[i])) = 1

\* a resolvable link 700 characters before the match is reported
C24_WitnessIncluded ==
    /\ linksCall.called
    /\ LET occ == Occurrences
       IN  \E i \in DOMAIN occ :
               /\ occ[i].index = linksCall.matchIndex - 700
               /\ Resolvable(occ[i])
               /\ Times(linksCall.relatedLinks, LinkRecord(occ[i])) >= 1

\* the records of the occurrences of ms that lie inside the window and resolve
RECURSIVE ReferenceRecords(_)
ReferenceRecords(ms) ==
    IF ms = <<>> THEN <<>>
    ELSE (IF InWindow(Head(ms)) /\ Resolvable(Head(ms))
          THEN <<LinkRecord(Head(ms))>> ELSE <<>>) \o ReferenceRecords(Tail(ms))

\* C25: relatedLinks holds one record for each link occurrence inside the
\* window whose target resolves, in document order; an occurrence whose target
\* does not resolve adds no record and a link that occurs several times adds
\* that many records.
C25_OneRecordPerResolvedOccurrence ==
    linksCall.called => linksCall.relatedLinks = ReferenceRecords(Occurrences)

\* a link occurs twice inside the window and an unresolved one lies between
C25_Witness ==
    /\ linksCall.called
    /\ \E i, j \in DOMAIN linksCall.relatedLinks :
           i # j /\ linksCall.relatedLinks[i] = linksCall.relatedLinks[j]
    /\ LET occ == Occurrences
       IN  \E i \in DOMAIN occ : InWindow(occ[i]) /\ ~Resolvable(occ[i])

\* ---- the embed forms, as texts

Folded(str) == [k \in DOMAIN str |-> ToLower(str[k])]
Quotes == {"\"", "'"}

\* ![[id]]
IsWikiEmbed(s, id) == Folded(s) = Folded(<<"!", "[", "[">> \o id \o <<"]", "]">>)

\* ![alt](id), alt without a closing bracket
IsMarkdownImage(s, id) ==
    \E n \in 0..(Len(s) - 2) :
        LET alt == SubSeq(s, 3, 2 + n)
        IN  /\ \A k \in DOMAIN alt : alt[k] # "]"
            /\ Folded(s) = Folded(<<"!", "[">> \o alt \o <<"]", "(">> \o id \o <<")">>)

\* <img ... src="id" ...>, one tag
IsImgTag(s, id) ==
    /\ Len(s) >= 5
    /\ Folded(SubSeq(s, 1, 4)) = <<"<", "i", "m", "g">>
    /\ s[Len(s)] = ">"
    /\ \A k \in 5..(Len(s) - 1) : s[k] # ">"
    /\ \E k \in 6..(Len(s) - 1) : \E q1, q2 \in Quotes :
           /\ k + 5 + Len(id) <= Len(s) - 1
           /\ Folded(SubSeq(s, k, k + 5 + Len(id)))
                = Folded(<<"s", "r", "c", "=", q1>> \o id \o <<q2>>)

IsEmbedOf(s, imageInfo) ==
    \E id \in {imageInfo.url, imageInfo.path} :
        IsWikiEmbed(s, id) \/ IsMarkdownImage(s, id) \/ IsImgTag(s, id)

\* an embed of the image of the latest call stands at offset i with length n
EmbedAt(i, n) ==
    IsEmbedOf(Slice(contextCall.allText, i, i + n), contextCall.imageInfo)

ImageAbsent ==
    \A i \in 0..(Len(contextCall.allText) - 1) :
        \A n \in 1..(Len(contextCall.allText) - i) : ~EmbedAt(i, n)

\* C26: when no embed of the image stands in the note, extractNoteContext
\* returns a context with empty textBefore and textAfter and without a match
\* span, whose related links, section data and tags are those computed for
\* offset 0 and a match of length 0.
C26_MissingImageDegrades ==
    (contextCall.called /\ ImageAbsent) =>
        LET nc == contextCall.noteContext
            sectionData == ExtractSectionData(contextCall.allText, 0)
        IN  /\ nc.textBefore = <<>> /\ nc.textAfter = <<>>
            /\ nc.matchIndex = Undefined /\ nc.matchLength = Undefined
            /\ nc.relatedLinks = ExtractRelatedWikiLinks(contextCall.allText, 0, 0)
            /\ nc.sectionTitle = sectionData.sectionTitle
            /\ nc.sectionPath = sectionData.sectionPath
            /\ nc.sectionText = sectionData.sectionText
            /\ nc.tags = ExtractNoteMetadata(contextCall.fileCache).tags

\* a note without the image whose links and section are not empty
C26_Witness ==
    /\ contextCall.called /\ ImageAbsent
    /\ contextCall.noteContext.relatedLinks # <<>>
    /\ contextCall.noteContext.sectionTitle # <<>>
    /\ contextCall.noteContext.tags # <<>>

\* C27: when the image is found, the span returned is the leftmost embed of
\* the image in the note: one of the three forms around the url or the path,
\* letters compared without case and every other character literally; and
\* textBefore and textAfter are the trimmed texts before and after the span.
C27_LeftmostLiteralEmbed ==
    (contextCall.called /\ contextCall.noteContext.matchIndex # Undefined) =>
        LET nc == contextCall.noteContext
            allText == contextCall.allText
        IN  /\ EmbedAt(nc.matchIndex, nc.matchLength)
            /\ \A i \in 0..(nc.matchIndex - 1) :
                   \A n \in 1..(Len(allText) - i) : ~EmbedAt(i, n)
            /\ nc.textBefore = Trim(Slice(allText, 0, nc.matchIndex))
            /\ nc.textAfter
                 = Trim(Slice(allText, nc.matchIndex + nc.matchLength, Len(allText)))

\* the image is found, in capitals, after an embed that differs from it where
\* its path has a dot, and the texts around it lose white space
C27_Witness ==
    /\ contextCall.called
    /\ contextCall.noteContext.matchIndex # Undefined
    /\ contextCall.noteContext.matchIndex > 0
    /\ Slice(contextCall.allText, 0, 8) = <<"!", "[", "[", "a", "x", "p", "]", "]">>
    /\ Slice(contextCall.allText, contextCall.noteContext.matchIndex,
             contextCall.noteContext.matchIndex + 8)
         = <<"!", "[", "[", "A", ".", "P", "]", "]">>
    /\ Len(contextCall.noteContext.textAfter)
         < Len(contextCall.allText) - contextCall.noteContext.matchIndex
             - contextCall.noteContext.matchLength

\* request j, made by a Re-run button, passes enforceRateLimit in this step
RerunPasses(j) ==
    /\ rerunBy'[j] # NoModal
    /\ requests[j].pc \in {"idle", "waiting"}
    /\ requests'[j].pc \notin {"idle", "waiting"}

\* C28: pressing Re-run (bypass cache) leads to a fresh analysis: the request
\* the button makes goes on to prepare the image for the analysis when it has
\* passed the rate limit, whatever the cache holds for it.
C28_RerunBypassesCache ==
    [][\A j \in Requests : RerunPasses(j) => requests'[j].pc = "preparing"]_vars

\* the number read in the 'Max Cache Entries' field
ShownBound ==
    LET text == DisplayedMaxCacheEntries(settings)
    IN  ParseDecimal(text, Len(text)).lo

\* C29: the bound a put enforces is the one the settings tab shows for Max
\* Cache Entries: after a put the store holds no more entries than the number
\* shown (200 while none was configured, else the number configured), and
\* while 0 is shown a put removes nothing.
C29_EnforcedBoundIsDisplayed ==
    [][FillPut =>
          IF ShownBound > 0 THEN Len(cache') <= ShownBound
          ELSE Len(cache') >= Len(cache)]_vars

\* C30: a put made before the constructor's load has completed is not lost:
\* the store starts empty, so every entry resident when the load completes
\* was put before, and each is resident, as it was put, once the load has
\* completed.
C30_EarlyPutSurvivesLoad ==
    [][(~loaded /\ loaded') =>
          \A k \in KeysOf(cache) :
              Has(cache', k) /\ EntryOf(cache', k) = EntryOf(cache, k)]_vars

\* the cache map the blob holds, empty when it has no cache field
PersistedCache(b) == IF b.hasCache THEN b.cache ELSE <<>>

\* C31: no update of the persisted blob is lost: when a write completes and
\* none is pending, after the store's load, the blob holds the settings as
\* they are and a cache map equal to the map in memory.
C31_NoLostUpdate ==
    [][(loaded /\ SaveDataDone /\ Pending' = 0) =>
          /\ blob'.s = [cacheResults |-> settings'.cacheResults,
                        maxCacheAge |-> settings'.maxCacheAge,
                        maxCacheEntries |-> settings'.maxCacheEntries]
          /\ SameMap(PersistedCache(blob'), cache')]_vars

\* the keys the recency order holds
OrderKeys == {accessOrder[i] : i \in 1..Len(accessOrder)}

\* C32: in every reachable state the recency order has no duplicates and its
\* key set equals the set of resident keys, so it is never longer than the map.
C32_OrderIsResidentKeys ==
    /\ \A i, j \in 1..Len(accessOrder) : accessOrder[i] = accessOrder[j] => i = j
    /\ OrderKeys = KeysOf(cache)
    /\ Len(accessOrder) <= Len(cache)

\* the recency order without the keys that are not resident
ResidentOrder == SelectSeq(accessOrder, LAMBDA k : Has(cache, k))

\* a put of c right after a hit on a, in a store of a and b bounded by 2 whose
\* oldest resident key is a
PutAfterHit ==
    /\ last.op = "get" /\ last.key = "a" /\ last.value # Null
    /\ settings.maxCacheEntries = 2
    /\ ResidentOrder = <<"a", "b">>
    /\ KeysOf(cache) = {"a", "b"}
    /\ CacheResult("c", "r1")

\* C33: a get that hits leaves the map and the recency order as they are and
\* starts no save, so a read does not protect an entry: with bound 2, after
\* put(a), put(b), get(a), the put of c evicts a and leaves b and c.
C33_HitChangesNothing ==
    [][/\ \A k \in Keys :
            (GetCachedResult(k) /\ last'.value # Null) =>
                /\ cache' = cache
                /\ accessOrder' = accessOrder
                /\ saves' = saves
                /\ blob' = blob
       /\ PutAfterHit => KeysOf(cache') = {"b", "c"}]_vars

\* a hit on a has just returned while a is the oldest of two entries, bound 2
C33_Witness ==
    /\ last.op = "get" /\ last.key = "a" /\ last.value # Null
    /\ settings.maxCacheEntries = 2
    /\ accessOrder = <<"a", "b">>
    /\ KeysOf(cache) = {"a", "b"}
    /\ Pending = 0

\* no two resident entries carry the same timestamp
DistinctTimestamps(c) ==
    \A i, j \in 1..Len(c) : c[i].timestamp = c[j].timestamp => i = j

\* the recency order a store has after saveCache has persisted map c and
\* loadCache has read it back
OrderAfterRoundTrip(c) ==
    LoadCacheEffect(<<>>, <<>>, SaveCacheData(EmptyBlob, c)).accessOrder

\* C34: the clock never goes backwards, and the recency order restricted to
\* the resident keys is sorted by non-decreasing timestamp; when the resident
\* timestamps are distinct, saving the map and loading it again gives exactly
\* that order.
C34_OrderSortedByTimestamp ==
    /\ Ascending(ResidentOrder, cache)
    /\ \A e \in KeysOf(cache) : EntryOf(cache, e).timestamp <= now
    /\ DistinctTimestamps(cache) => OrderAfterRoundTrip(cache) = ResidentOrder

\* two entries with distinct timestamps whose recency order differs from the
\* order the map holds them in, beside a key that is no longer resident
C34_Witness ==
    /\ Len(cache) = 2
    /\ DistinctTimestamps(cache)
    /\ ResidentOrder # [i \in 1..Len(cache) |-> cache[i].key]
    /\ Len(accessOrder) > Len(cache)
    /\ last.op = "put"

\* the map, the recency order, the pending saves and the blob stay as they are
StoreUntouched ==
    /\ cache' = cache
    /\ accessOrder' = accessOrder
    /\ saves' = saves
    /\ blob' = blob

\* C35: while cacheResults is false a get returns null and a put leaves the
\* map, the recency order and the persisted state as they are; the toggle
\* itself removes nothing, and once it is switched on again a get returns
\* every entry stored before that has not expired.
C35_DisabledCacheIsInert ==
    [][/\ \A k \in TwoKeys :
            (~settings.cacheResults /\ GetCachedResult(k)) =>
                last'.value = Null /\ StoreUntouched
       /\ \A k \in TwoKeys, r \in Results :
            (~settings.cacheResults /\ CacheResult(k, r)) => StoreUntouched
       /\ SetCacheResults =>
            /\ cache' = cache /\ accessOrder' = accessOrder
            /\ settings'.cacheResults =>
                 \A k \in KeysOf(cache) :
                     ~Expired(EntryOf(cache, k), settings', now') =>
                         GetCachedResultValue(cache', settings', k, now')
                             = EntryOf(cache, k).result]_vars

\* caching is off and a get for a resident, unexpired key has returned null
C35_Witness ==
    /\ ~settings.cacheResults
    /\ last.op = "get" /\ last.value = Null
    /\ Has(cache, last.key)
    /\ ~Expired(EntryOf(cache, last.key), settings, now)

\* C36: every opened prompt modal goes on to call onSubmit exactly once, also
\* when it is dismissed without Run or Cancel, so the promise its handler
\* awaits is resolved.
C36_PromptAlwaysSubmits ==
    (prompt.modal = "open") ~> (prompt.modal = "closed" /\ Len(prompt.submits) = 1)

\* C37: after a prompt resolved to null its handler makes no call of the
\* analysis client, for the menu's custom action and for the bulk command.
C37_CancelNeverAnalyzes ==
    (prompt.submits # <<>> /\ Resolved.isNull) => prompt.calls = 0

\* str holds sub as a run of consecutive elements
Contains(str, sub) ==
    \E i \in 0..(Len(str) - Len(sub)) : Slice(str, i, i + Len(sub)) = sub

\* C38: when the note context records a match span, at any offset from 0 on,
\* the document after an insert button keeps everything before the insertion
\* point and everything after it, with the formatted content in between: the
\* point is matchIndex for above, matchIndex + matchLength for below, and the
\* whole span gives way for replace.
C38_InsertAtMatchSpan ==
    (/\ insertCall.called
     /\ insertCall.nc.matchIndex # Undefined
     /\ insertCall.nc.matchLength # Undefined
     /\ insertCall.nc.matchIndex >= 0) =>
        LET doc == insertCall.doc
            out == insertCall.out
            mi == insertCall.nc.matchIndex
            ml == insertCall.nc.matchLength
            start == IF insertCall.button = "below" THEN mi + ml ELSE mi
            end == IF insertCall.button = "above" THEN mi ELSE mi + ml
            rest == Len(doc) - end
        IN  /\ Len(out) >= start + rest
            /\ Slice(out, 0, start) = Slice(doc, 0, start)
            /\ Slice(out, Len(out) - rest, Len(out)) = Slice(doc, end, Len(doc))
            /\ LET middle == Slice(out, start, Len(out) - rest)
               IN  IF insertCall.button = "replace"
                   THEN Contains(middle, <<"x">>) /\ ~Contains(middle, Embed)
                   ELSE Contains(middle, FormatContent(insertCall.content))

====
